---- MODULE Spec2Model ----
(***************************************************************************)
(* A model of MatrixRGB (main.go): the per-column state machine            *)
(* (initColumns, drawColumnFrame), the frame loop of main with its resize  *)
(* and interrupt polls, argument parsing and the terminal lifecycle.       *)
(*                                                                         *)
(* Random draws (rand.Intn) are nondeterministic choices.  Two             *)
(* specifications are given:                                               *)
(*   SpecColumn  one column as main drives it: initColumns for the height  *)
(*               in force, then drawColumnFrame once per tick              *)
(*   Spec        the whole of main(), from os.Args to process exit         *)
(***************************************************************************)
EXTENDS Integers, Sequences, FiniteSets, TLC

VARIABLES
    \* ---- program state (main.go) ----
    width,        \* main: width  (after clampDimensions)
    height,       \* main: height (after clampDimensions)
    columns,      \* main: columns []column
    \* ---- observation of the last drawColumnFrame call ----
    emit,         \* the instructions that call appended to the writer, in order
    op,           \* the last operation applied to the column set
    \* ---- history of the column under SpecColumn ----
    sinceAct,     \* advance calls since (and counting) the last activation call
    actLen,       \* the column's length at that activation
    returned,     \* whether the column has deactivated since that activation
    dueAct,       \* advance calls left, as counted from the last sampling of a gap g
                  \* and a length L, up to and counting the (g+1)-th
    dueReturn,    \* the same up to and counting the (g+height+L+1)-th
    \* ---- the terminal ----
    screen,       \* the cells <<row, column>> that show a glyph
    \* ---- main() and its environment, under Spec ----
    pc,           \* where main is
    args,         \* os.Args[1:], until parseArguments has consumed it
    cfg,          \* main: cfg
    err,          \* main: err, as <<message, argument>>; << >> is nil
    idx,          \* main: idx of the range loop over columns (0-based)
    term,         \* what the terminal and the environment answer a size query
    notified,     \* the signals relayed to a channel (signal.Notify / Stop)
    interruptCh,  \* number of signals buffered in interruptCh (capacity 1)
    resizeCh,     \* number of signals buffered in resizeCh (capacity 1)
    resized,      \* main: resized
    buf,          \* writer: what is buffered and not yet flushed
    bufBytes,     \* writer: the number of bytes buffered
    rainbowTable, \* main's rainbowTable: the "r;g;b" entries, as triples
    flushed,      \* what the last Flush of writer wrote to standard output
    tmode,        \* the terminal's modes, as the flushed sequences set them
    stdout,       \* what was printed to standard output besides writer
    stderr,       \* what was printed to standard error
    exitCode,     \* the exit status once pc = "exited"
    sleepLeft,    \* what is left of the current time.Sleep, in ms
    elapsedMs,    \* main: elapsed, in ms, from line 129 to the end of the iteration; -1 before
    ticks,        \* frames flushed so far
    resizes,      \* terminal resizes so far
    intAt,        \* history: the phase of main when the interrupt last relayed arrived
    polledInt,    \* history: the top-of-tick poll has received an interrupt
    wasFalling,   \* history: a column was falling when the last resize reset ran
    \* ---- one call of a pure function, under SpecPure ----
    call,         \* the function called, its arguments and whether it has returned
    result        \* what it returned

colVars ==
    <<width, height, columns, emit, op, sinceAct, actLen, returned, dueAct, dueReturn,
      screen>>

mainVars ==
    <<pc, args, cfg, err, idx, term, notified, interruptCh, resizeCh, resized,
      buf, bufBytes, rainbowTable, flushed, tmode, stdout, stderr, exitCode, sleepLeft, elapsedMs,
      ticks, resizes,
      intAt, polledInt, wasFalling>>

pureVars == <<call, result>>

vars == <<colVars, mainVars, pureVars>>

(***************************************************************************)
(* Constants of the program                                                *)
(***************************************************************************)
\* rainbowFreq = 0.1, in units of 10^-8
rainbowFreq == 10000000

rainbowCycle == 63
minTermHeight == 10
minTermWidth == 20
defaultSpeed == 5
defaultDensity == 80

\* katakanaChars, as code points (the rune values); U+FF98 occurs twice.
katakanaChars ==
    << 65393, 65394, 65395, 65396, 65397, 65398, 65399, 65400, 65401, 65402,
       65403, 65404, 65405, 65406, 65407, 65408, 65409, 65410, 65411, 65412,
       65413, 65414, 65415, 65416, 65417, 65418, 65419, 65420, 65421, 65422,
       65423, 65424, 65425, 65426, 65427, 65428, 65429, 65430, 65431, 65432,
       65432, 65436, 65438, 65439 >>

(***************************************************************************)
(* Bounds of the model                                                     *)
(***************************************************************************)
\* Under SpecColumn the draws of a glyph and of a colour offset are the
\* first SampleWidth values of rand.Intn(n) and its last value n-1.
SampleWidth == 1

\* Terminal heights the size query may return under SpecColumn (before
\* clampDimensions); 4 is below the minimum, 24 is the spec's example.
RawHeights == {4, 11, 24}

\* Under Spec: the longest argument list, the most columns a run is followed
\* with, the frames and the terminal resizes a run is followed for, and the
\* step of the clock during time.Sleep, in ms.
MaxArgs == 3
MaxColumns == 2
MaxTicks == 7
MaxResizes == 1
Quantum == 50

(***************************************************************************)
(* Go's int.  Its width is that of the target: 64 bits on the linux/amd64  *)
(* and linux/arm64 builds, 32 bits on the linux/arm build (build.sh).  The *)
(* model keeps the 32 bits of linux/arm: an int is an integer of           *)
(* -2^31 .. 2^31-1 and + - * wrap around.  The arithmetic is done on the   *)
(* four bytes of the two's complement, least significant first.            *)
(***************************************************************************)
intBytes(x) ==
    LET x1 == x \div 256
        x2 == x1 \div 256
        x3 == x2 \div 256
    IN  <<x % 256, x1 % 256, x2 % 256, x3 % 256>>

bytesInt(l) ==
    (IF l[4] >= 128 THEN l[4] - 256 ELSE l[4]) * 16777216
        + l[3] * 65536 + l[2] * 256 + l[1]

\* the four low bytes of the number whose byte columns sum to c (a column
\* may exceed one byte: the excess is carried)
carried(c) ==
    LET s1 == c[1]
        s2 == c[2] + (s1 \div 256)
        s3 == c[3] + (s2 \div 256)
        s4 == c[4] + (s3 \div 256)
    IN  <<s1 % 256, s2 % 256, s3 % 256, s4 % 256>>

\* a + b
addInt(a, b) ==
    LET x == intBytes(a)
        y == intBytes(b)
    IN  bytesInt(carried(<<x[1] + y[1], x[2] + y[2], x[3] + y[3], x[4] + y[4]>>))

\* a - b: a + ^b + 1
subInt(a, b) ==
    LET x == intBytes(a)
        y == intBytes(b)
    IN  bytesInt(carried(<<x[1] + (255 - y[1]) + 1, x[2] + (255 - y[2]),
                           x[3] + (255 - y[3]), x[4] + (255 - y[4])>>))

\* a * b
mulInt(a, b) ==
    LET x == intBytes(a)
        y == intBytes(b)
    IN  bytesInt(carried(
            <<x[1] * y[1],
              x[1] * y[2] + x[2] * y[1],
              x[1] * y[3] + x[2] * y[2] + x[3] * y[1],
              x[1] * y[4] + x[2] * y[3] + x[3] * y[2] + x[4] * y[1]>>))

(***************************************************************************)
(* rand.Intn                                                               *)
(***************************************************************************)
\* rand.Intn(n): every value of [0, n)
Intn(n) == 0 .. (n - 1)

\* the first SampleWidth values of rand.Intn(n) and its last value
Sample(n) == {k \in Intn(n) : k < SampleWidth \/ k = n - 1}

\* the least and the greatest value of rand.Intn(n)
Extremes(n) == {0, n - 1}

\* the draws of a gap or a length the model follows: all of them under
\* SpecColumn (every), the extremes under Spec
Draws(n, every) == IF every THEN Intn(n) ELSE Extremes(n)

\* the draws of a glyph or a colour offset the model follows
Picks(n, every) == IF every THEN Sample(n) ELSE Extremes(n)

(***************************************************************************)
(* clampDimensions                                                         *)
(***************************************************************************)
\* a faulty variant of clampWidth: no minimum
clampWidthNone(w) == w

clampWidth(w) == IF w < minTermWidth THEN minTermWidth ELSE w

clampHeight(h) == IF h < minTermHeight THEN minTermHeight ELSE h

(***************************************************************************)
(* initColumns                                                             *)
(***************************************************************************)
\* a faulty variant of zeroColumn: a column that starts out falling, as one carried
\* over from before would
carriedColumn ==
    [active |-> TRUE, head |-> 1, gap |-> 0, length |-> 0,
     colorOffset |-> 0, lastChar |-> 0]

\* the zero value of struct column
zeroColumn ==
    [active |-> FALSE, head |-> 0, gap |-> 0, length |-> 0,
     colorOffset |-> 0, lastChar |-> 0]

\* a faulty variant of gapFrom: rand.Intn(10) + 6
gapFromLate(r) == r + 6

\* rand.Intn(10) + 5
gapFrom(r) == r + 5

\* a faulty variant of lengthDraws: one draw too many
lengthDrawsWide(h) == (h \div 2) + 2

\* the argument of rand.Intn for a length: height/2 + 1
lengthDraws(h) == (h \div 2) + 1

\* rand.Intn(height/2+1) + 3
lengthFrom(r) == r + 3

\* one element of the slice initColumns returns, for the draws rg, rl, rc
initColumn(rg, rl, rc) ==
    [zeroColumn EXCEPT !.gap = gapFrom(rg), !.length = lengthFrom(rl),
                       !.colorOffset = rc]

\* the slices initColumns(count, height, rainbowLen) can return
initColumns(count, h, rainbowLen, every) ==
    LET n == IF rainbowLen = 0 THEN 1 ELSE rainbowLen
        one == {initColumn(rg, rl, rc) :
                    rg \in Draws(10, every),
                    rl \in Draws(lengthDraws(h), every), rc \in Picks(n, every)}
    IN  [1 .. count -> one]

(***************************************************************************)
(* buildRainbowTable.  The float64 values are kept in fixed point, in      *)
(* units of 10^-8, and math.Sin is computed to within 10^-6 from the       *)
(* Taylor series of the sine on [-pi/2, pi/2].  For frequency 0.1 no       *)
(* channel of the 63 entries lies within 0.004 of an integer or of a half  *)
(* (entry 0's red, sin(0)*127 + 128 = 128, is computed exactly), so the    *)
(* conversions to int below are those of the float64 values.               *)
(***************************************************************************)
\* 1.0 and the half-width of a fixed-point number
fixedOne == 100000000

fixedSplit == 10000

\* math.Pi, and twoPi := 2 * math.Pi (line 210)
fixedPi == 314159265

twoPi == 628318531

\* a * b for two fixed-point numbers of magnitude up to 3.2
fixedMul(a, b) ==
    LET x == IF a < 0 THEN -a ELSE a
        y == IF b < 0 THEN -b ELSE b
        x1 == x \div fixedSplit
        x0 == x % fixedSplit
        y1 == y \div fixedSplit
        y0 == y % fixedSplit
        p == x1 * y1 + ((x1 * y0 + x0 * y1) \div fixedSplit)
    IN  IF (a < 0) = (b < 0) THEN p ELSE -p

\* the angle in [-pi/2, pi/2] with the sine of x
reducedAngle(x) ==
    LET r0 == x % twoPi
        r == IF r0 > fixedPi THEN r0 - twoPi ELSE r0
    IN  IF r > fixedPi \div 2 + 1 THEN fixedPi - r
        ELSE IF r < -(fixedPi \div 2 + 1) THEN -fixedPi - r
        ELSE r

\* math.Sin(x): x - x^3/3! + x^5/5! - ... + x^13/13! - x^15/15!
sinFixed(x) ==
    LET r == reducedAngle(x)
        x2 == fixedMul(r, r)
        t7 == fixedOne - (x2 \div 210)
        t6 == fixedOne - (fixedMul(x2, t7) \div 156)
        t5 == fixedOne - (fixedMul(x2, t6) \div 110)
        t4 == fixedOne - (fixedMul(x2, t5) \div 72)
        t3 == fixedOne - (fixedMul(x2, t4) \div 42)
        t2 == fixedOne - (fixedMul(x2, t3) \div 20)
        t1 == fixedOne - (fixedMul(x2, t2) \div 6)
    IN  fixedMul(r, t1)

\* s*127 + 128 for a sine s, in units of 10^-4
channelValue(s) ==
    LET m == IF s < 0 THEN -s ELSE s
        q == (m \div fixedSplit) * 127 + (((m % fixedSplit) * 127) \div fixedSplit)
    IN  128 * fixedSplit + (IF s < 0 THEN -q ELSE q)

\* a faulty variant of toInt: to the nearest integer
toIntRounded(v) == (v + (fixedSplit \div 2)) \div fixedSplit

\* int(v) for a float64 v given in units of 10^-4: the fraction is cut off
toInt(v) == IF v >= 0 THEN v \div fixedSplit ELSE -((-v) \div fixedSplit)

\* table[i], lines 212-215: the three numbers of "%d;%d;%d"
rainbowEntry(freq, i) ==
    <<toInt(channelValue(sinFixed(freq * i))),
      toInt(channelValue(sinFixed(freq * i + (twoPi \div 3)))),
      toInt(channelValue(sinFixed(freq * i + ((2 * twoPi) \div 3))))>>

\* the table, entry i of the code at index i + 1
buildRainbowTable(freq, cycle) == [i \in 1 .. cycle |-> rainbowEntry(freq, i - 1)]

(***************************************************************************)
(* rainbowColor: the index of the table entry it returns                   *)
(***************************************************************************)
\* Go's % truncates toward zero
goMod(a, b) == IF a >= 0 THEN a % b ELSE -((-a) % b)

\* a faulty variant of rainbowIndex: a negative remainder is not wrapped
rainbowIndexRaw(tableLen, position) == goMod(position, tableLen)

rainbowIndex(tableLen, position) ==
    LET index == goMod(position, tableLen)
    IN  IF index < 0 THEN index + tableLen ELSE index

(***************************************************************************)
(* drawColumnFrame                                                         *)
(***************************************************************************)
\* lines 246-253: the gap countdown.  TRUE when the call returns early.
gapReturns(col) == ~col.active /\ col.gap > 0

\* a faulty variant of gapStep: the countdown goes by two
gapStepTwice(col) == [col EXCEPT !.gap = col.gap - 2]

\* the column after the early return
gapStep(col) == [col EXCEPT !.gap = col.gap - 1]

\* a faulty variant of activate: the head is not set
activateKeepingHead(col) ==
    IF ~col.active THEN [col EXCEPT !.active = TRUE] ELSE col

\* the column at line 255: activated at head 1 if it was in gap with gap = 0
activate(col) ==
    IF ~col.active THEN [col EXCEPT !.active = TRUE, !.head = 1] ELSE col

\* a faulty variant of drawsHead: no lower end of the terminal
drawsHeadBelow(head, h) == head >= 1

drawsHead(head, h) == head >= 1 /\ head <= h

\* a faulty variant of trailPos: two rows behind the head
trailPosTwoBack(head) == head - 2

trailPos(head) == head - 1

drawsTrail(tp, h, prevChar) == tp >= 1 /\ tp <= h /\ prevChar # 0

\* a faulty variant of erasePos: the row of the trail glyph
erasePosAtTrail(head, length) == head - 1

\* a faulty variant of erasePos: one row too high
erasePosAbove(head, length) == head - length - 1

erasePos(head, length) == head - length

\* a faulty variant of drawsErase: no upper limit
drawsEraseBelow(ep, h) == ep >= 1

drawsErase(ep, h) == ep >= 1 /\ ep <= h

\* a faulty variant of nextHead: the head falls two rows
nextHeadTwice(head) == head + 2

\* line 278
nextHead(head) == head + 1

\* faulty variants of deactivates: one call early, one call late
deactivatesEarly(head, h, length) == head >= h + length

deactivatesLate(head, h, length) == head > h + length + 1

\* line 280
deactivates(head, h, length) == head > h + length

\* the instructions lines 260-276 write for column ci (idx, 0-based), in order
instructions(ci, col, h, char) ==
    LET head == col.head
        tp == trailPos(head)
        ep == erasePos(head, col.length)
        bold == IF drawsHead(head, h)
                THEN << [kind |-> "bold", row |-> head, col |-> ci + 1,
                         color |-> rainbowIndex(rainbowCycle, head + col.colorOffset),
                         glyph |-> char] >>
                ELSE << >>
        dim == IF drawsTrail(tp, h, col.lastChar)
               THEN << [kind |-> "dim", row |-> tp, col |-> ci + 1,
                        color |-> rainbowIndex(rainbowCycle, tp + col.colorOffset),
                        glyph |-> col.lastChar] >>
               ELSE << >>
        erase == IF drawsErase(ep, h)
                 THEN << [kind |-> "erase", row |-> ep, col |-> ci + 1,
                          color |-> -1, glyph |-> 0] >>
                 ELSE << >>
    IN  bold \o dim \o erase

\* lines 281-286: the column after deactivation, for the draws rg, rl, rc
deactivated(col, colorOffset, rg, rl, rc) ==
    [col EXCEPT !.active = FALSE, !.head = 0, !.gap = gapFrom(rg),
                !.length = lengthFrom(rl),
                !.colorOffset = goMod(colorOffset + rc, rainbowCycle),
                !.lastChar = 0]

\* the column after lines 255-288, entered with col already activated
fallStep(col, h, char, rg, rl, rc) ==
    LET head == col.head
        c1 == IF drawsHead(head, h) THEN [col EXCEPT !.lastChar = char] ELSE col
        c2 == [c1 EXCEPT !.head = nextHead(head)]
    IN  IF deactivates(head, h, col.length)
        THEN deactivated(c2, col.colorOffset, rg, rl, rc)
        ELSE c2

\* the outcomes of drawColumnFrame(writer, ci, &col, height, rainbowTable):
\* the column afterwards and the instructions written
drawColumnFrame(ci, col, h, every) ==
    IF gapReturns(col)
    THEN {[col |-> gapStep(col), out |-> << >>]}
    ELSE LET a == activate(col)
             chars == IF drawsHead(a.head, h)
                      THEN {katakanaChars[r + 1] : r \in Picks(Len(katakanaChars), every)}
                      ELSE {0}
         IN  IF deactivates(a.head, h, a.length)
             THEN {[col |-> fallStep(a, h, ch, rg, rl, rc),
                    out |-> instructions(ci, a, h, ch)] :
                       ch \in chars, rg \in Draws(10, every),
                       rl \in Draws(lengthDraws(h), every),
                       rc \in Picks(rainbowCycle, every)}
             ELSE {[col |-> fallStep(a, h, ch, 0, 0, 0),
                    out |-> instructions(ci, a, h, ch)] : ch \in chars}

(***************************************************************************)
(* strconv.Atoi, on a string given as the sequence of its characters       *)
(***************************************************************************)
digits == <<"0", "1", "2", "3", "4", "5", "6", "7", "8", "9">>

isDigit(c) == \E d \in 1 .. Len(digits) : digits[d] = c

digitValue(c) == (CHOOSE d \in 1 .. Len(digits) : digits[d] = c) - 1

RECURSIVE decimal(_, _)
\* the value of the digit string s, read after the value acc
decimal(s, acc) ==
    IF s = << >> THEN acc
    ELSE decimal(Tail(s), acc * 10 + digitValue(Head(s)))

\* [ok, value]: a base-10 integer with an optional sign; anything else
\* (the empty string, a lone sign, any other character) is an error
Atoi(s) ==
    LET signed == s # << >> /\ Head(s) \in {"+", "-"}
        body == IF signed THEN Tail(s) ELSE s
        wellFormed == body # << >> /\ \A i \in 1 .. Len(body) : isDigit(body[i])
    IN  IF ~wellFormed THEN [ok |-> FALSE, value |-> 0]
        ELSE [ok |-> TRUE,
              value |-> IF signed /\ Head(s) = "-"
                        THEN -decimal(body, 0) ELSE decimal(body, 0)]

(***************************************************************************)
(* parseArguments                                                          *)
(***************************************************************************)
optS == <<"-", "s">>
optSpeed == <<"-", "-", "s", "p", "e", "e", "d">>
optD == <<"-", "d">>
optDensity == <<"-", "-", "d", "e", "n", "s", "i", "t", "y">>
optH == <<"-", "h">>
optHelp == <<"-", "-", "h", "e", "l", "p">>

defaultConfig == [speed |-> defaultSpeed, density |-> defaultDensity]

noError == << >>

\* a faulty variant of speedInRange: no upper limit
speedAtLeastOne(v) == ~(v < 1)

speedInRange(v) == ~(v < 1 \/ v > 10)

densityInRange(v) == ~(v < 1 \/ v > 100)

RECURSIVE parseFrom(_, _, _)
\* the for loop of parseArguments from index i (1-based) with cfg so far
parseFrom(a, i, c) ==
    IF i > Len(a) THEN [cfg |-> c, help |-> FALSE, err |-> noError]
    ELSE LET arg == a[i] IN
         IF arg \in {optH, optHelp}
         THEN [cfg |-> c, help |-> TRUE, err |-> noError]
         ELSE IF arg \in {optS, optSpeed}
         THEN IF i + 1 > Len(a)
              THEN [cfg |-> c, help |-> FALSE, err |-> <<"missing value for", arg>>]
              ELSE LET v == Atoi(a[i + 1]) IN
                   IF ~v.ok \/ ~speedInRange(v.value)
                   THEN [cfg |-> c, help |-> FALSE,
                         err |-> <<"speed must be an integer between 1 and 10", << >> >>]
                   ELSE parseFrom(a, i + 2, [c EXCEPT !.speed = v.value])
         ELSE IF arg \in {optD, optDensity}
         THEN IF i + 1 > Len(a)
              THEN [cfg |-> c, help |-> FALSE, err |-> <<"missing value for", arg>>]
              ELSE LET v == Atoi(a[i + 1]) IN
                   IF ~v.ok \/ ~densityInRange(v.value)
                   THEN [cfg |-> c, help |-> FALSE,
                         err |-> <<"density must be an integer between 1 and 100", << >> >>]
                   ELSE parseFrom(a, i + 2, [c EXCEPT !.density = v.value])
         ELSE [cfg |-> c, help |-> FALSE, err |-> <<"invalid option:", arg>>]

parseArguments(a) == parseFrom(a, 1, defaultConfig)

(***************************************************************************)
(* calculateFrameDelay, calculateColumnCount                               *)
(***************************************************************************)
\* faulty variants of calculateFrameDelay: no lower limit, and 20 ms already
\* at 28
calculateFrameDelayUnclamped(speed) == subInt(160, mulInt(speed, 12))

calculateFrameDelayEarly(speed) ==
    LET ms == subInt(160, mulInt(speed, 12))
    IN  IF ms < 30 THEN 20 ELSE ms

\* in milliseconds
calculateFrameDelay(speed) ==
    LET ms == subInt(160, mulInt(speed, 12))
    IN  IF ms < 20 THEN 20 ELSE ms

\* Go's / truncates toward zero
goDiv(a, b) == IF a >= 0 THEN a \div b ELSE -((-a) \div b)

\* a faulty variant of calculateColumnCount: no lower limit
calculateColumnCountNoFloor(w, density) ==
    LET c0 == goDiv(mulInt(w, density), 100)
    IN  IF c0 > w THEN w ELSE c0

calculateColumnCount(w, density) ==
    LET c0 == goDiv(mulInt(w, density), 100)
        c1 == IF c0 < 1 THEN 1 ELSE c0
    IN  IF c1 > w THEN w ELSE c1

(***************************************************************************)
(* getTerminalSize, ioctlGetWinsize                                        *)
(***************************************************************************)
\* a descriptor that is a terminal of col x row cells, and one that is none
tty(c, r) == [errno |-> 0, col |-> c, row |-> r]

notTty == [errno |-> 25, col |-> 0, row |-> 0]

\* fd: [errno, col, row], the answer of ioctl(TIOCGWINSZ) on a descriptor
ioctlGetWinsize(fd) ==
    IF fd.errno = 0 /\ fd.col > 0 /\ fd.row > 0
    THEN [w |-> fd.col, h |-> fd.row, ok |-> TRUE]
    ELSE [w |-> 0, h |-> 0, ok |-> FALSE]

\* a faulty variant of envOr: zero is taken too
envOrZero(value, default) ==
    IF value # << >> /\ Atoi(value).ok /\ Atoi(value).value >= 0
    THEN Atoi(value).value
    ELSE default

\* an environment variable, if set to a positive integer, else the default
envOr(value, default) ==
    IF value # << >> /\ Atoi(value).ok /\ Atoi(value).value > 0
    THEN Atoi(value).value
    ELSE default

\* t: [out, inp, COLUMNS, LINES]
getTerminalSize(t) ==
    IF ioctlGetWinsize(t.out).ok
    THEN [w |-> ioctlGetWinsize(t.out).w, h |-> ioctlGetWinsize(t.out).h]
    ELSE IF ioctlGetWinsize(t.inp).ok
    THEN [w |-> ioctlGetWinsize(t.inp).w, h |-> ioctlGetWinsize(t.inp).h]
    ELSE [w |-> envOr(t.COLUMNS, 80), h |-> envOr(t.LINES, 24)]

(***************************************************************************)
(* setupTerminal, restoreTerminal, clearScreen and the terminal            *)
(***************************************************************************)
\* an escape sequence that is no draw or erase instruction, by its text
\* after ESC [
ctl(text) == [kind |-> text, row |-> 0, col |-> 0, color |-> -1, glyph |-> 0]

setupSequences == <<ctl("?1049h"), ctl("2J"), ctl("?25l"), ctl("?7l")>>

restoreSequences == <<ctl("0m"), ctl("?25h"), ctl("?7h"), ctl("?1049l")>>

clearSequences == <<ctl("2J"), ctl("H")>>

frameEnd == <<ctl("0m")>>

\* the modes of a terminal nothing was written to
normalMode == [alt |-> FALSE, hidden |-> FALSE, nowrap |-> FALSE]

\* the modes after the terminal has read one item
modeAfter(m, item) ==
    CASE item.kind = "?1049h" -> [m EXCEPT !.alt = TRUE]
      [] item.kind = "?1049l" -> [m EXCEPT !.alt = FALSE]
      [] item.kind = "?25l" -> [m EXCEPT !.hidden = TRUE]
      [] item.kind = "?25h" -> [m EXCEPT !.hidden = FALSE]
      [] item.kind = "?7l" -> [m EXCEPT !.nowrap = TRUE]
      [] item.kind = "?7h" -> [m EXCEPT !.nowrap = FALSE]
      [] OTHER -> m

\* the mode after a sequence of items, one half of it after the other; what is
\* no mode stays as it is
RECURSIVE modeAfterAll(_, _)
modeAfterAll(m, items) ==
    IF m \notin [alt : BOOLEAN, hidden : BOOLEAN, nowrap : BOOLEAN] \/ items = << >>
    THEN m
    ELSE IF Len(items) = 1 THEN modeAfter(m, items[1])
    ELSE modeAfterAll(modeAfterAll(m, SubSeq(items, 1, Len(items) \div 2)),
                      SubSeq(items, Len(items) \div 2 + 1, Len(items)))

(***************************************************************************)
(* writer := bufio.NewWriter(os.Stdout), line 81                           *)
(***************************************************************************)
\* the size of the buffer bufio.NewWriter gives a writer, in bytes
writerSize == 4096

\* the number of characters %d prints for n >= 0
decimalLen(n) ==
    IF n < 10 THEN 1 ELSE IF n < 100 THEN 2 ELSE IF n < 1000 THEN 3
    ELSE IF n < 10000 THEN 4 ELSE 5

\* the number of bytes of string(char), the UTF-8 encoding of a rune
utf8Len(char) ==
    IF char < 128 THEN 1 ELSE IF char < 2048 THEN 2 ELSE IF char < 65536 THEN 3 ELSE 4

\* the length of table[index], "%d;%d;%d"
colorLen(index) ==
    LET e == rainbowTable[index + 1]
    IN  decimalLen(e[1]) + decimalLen(e[2]) + decimalLen(e[3]) + 2

\* the number of bytes of what is written for an item: lines 264, 270, 275
\* for an instruction, the sequence itself otherwise
byteLen(item) ==
    CASE item.kind \in {"bold", "dim"} ->
             17 + decimalLen(item.row) + decimalLen(item.col)
                + colorLen(item.color) + (utf8Len(item.glyph) - 3)
      [] item.kind = "erase" -> 9 + decimalLen(item.row) + decimalLen(item.col)
      [] item.kind \in {"0m", "2J"} -> 4
      [] item.kind = "H" -> 3
      [] item.kind \in {"?7l", "?7h"} -> 5
      [] item.kind \in {"?25l", "?25h"} -> 6
      [] item.kind \in {"?1049h", "?1049l"} -> 8

\* a writer holding the items b, n bytes in all; out is what its last write
\* to standard output wrote, wrote whether it has written since
writer(b, n) == [buf |-> b, n |-> n, out |-> << >>, wrote |-> FALSE]

\* bufio.Writer.Write of one item: what does not fit into the buffer makes
\* the writer fill the buffer, write it out and keep the rest (an item cut in
\* two stands in both the write and the buffer)
writeOne(w, item) ==
    LET len == byteLen(item)
        avail == writerSize - w.n
    IN  IF len <= avail
        THEN [w EXCEPT !.buf = Append(w.buf, item), !.n = w.n + len]
        ELSE IF w.n = 0
        THEN [w EXCEPT !.out = <<item>>, !.wrote = TRUE]
        ELSE [buf |-> <<item>>, n |-> len - avail,
              out |-> Append(w.buf, item), wrote |-> TRUE]

RECURSIVE writeAll(_, _)
writeAll(w, items) ==
    IF items = << >> THEN w
    ELSE writeAll(writeOne(w, Head(items)), Tail(items))

\* bufio.Writer.Flush
flush(w) ==
    IF w.n = 0 THEN w
    ELSE [buf |-> << >>, n |-> 0, out |-> w.buf, wrote |-> TRUE]

(***************************************************************************)
(* The terminal's screen: the cells that show a glyph                      *)
(***************************************************************************)
\* the greatest element of a non-empty set of numbers
last(S) == CHOOSE k \in S : \A j \in S : j <= k

\* the screen scr after the terminal has received items: a clear-screen
\* blanks every cell, a bold or dim instruction puts a glyph into its cell
\* and an erase puts a space there
applied(scr, items) ==
    LET clears == {k \in 1 .. Len(items) : items[k].kind = "2J"}
        from == IF clears = {} THEN 1 ELSE last(clears)
        base == IF clears = {} THEN scr ELSE {}
        marks == {k \in from .. Len(items) : items[k].kind \in {"bold", "dim", "erase"}}
        touched == {<<items[k].row, items[k].col>> : k \in marks}
        lastAt(cell) == last({k \in marks : <<items[k].row, items[k].col>> = cell})
    IN  (base \ touched) \cup {cell \in touched : items[lastAt(cell)].kind # "erase"}

\* the screen after the writer w has acted: what it wrote, if it wrote
shown(scr, w) == IF w.wrote THEN applied(scr, w.out) ELSE scr

\* no call of SpecPure
noCall == [fn |-> "none", in |-> << >>, done |-> FALSE]

(***************************************************************************)
(* SpecColumn: one column under the calls main makes on it                 *)
(***************************************************************************)
ColInit ==
    /\ width = minTermWidth
    /\ height \in {clampHeight(h) : h \in RawHeights}
    /\ columns \in initColumns(1, height, rainbowCycle, TRUE)
    /\ emit = << >>
    /\ op = "init"
    /\ sinceAct = 0
    /\ actLen = 0
    /\ returned = FALSE
    /\ dueAct = columns[1].gap + 1
    /\ dueReturn = columns[1].gap + height + columns[1].length + 1
    /\ screen = {}
    /\ pc = "draw"
    /\ args = << >>
    /\ cfg = defaultConfig
    /\ err = noError
    /\ idx = 0
    /\ term = [out |-> tty(width, height), inp |-> tty(width, height),
               COLUMNS |-> << >>, LINES |-> << >>]
    /\ notified = {"INT", "WINCH"}
    /\ interruptCh = 0
    /\ resizeCh = 0
    /\ resized = FALSE
    /\ buf = << >>
    /\ bufBytes = 0
    /\ rainbowTable = << >>
    /\ flushed = << >>
    /\ tmode = modeAfterAll(normalMode, setupSequences)
    /\ stdout = << >>
    /\ stderr = << >>
    /\ exitCode = -1
    /\ sleepLeft = 0
    /\ elapsedMs = -1
    /\ ticks = 0
    /\ resizes = 0
    /\ intAt = "none"
    /\ polledInt = FALSE
    /\ wasFalling = FALSE
    /\ call = noCall
    /\ result = 0

\* lines 280-286: whether the call that took the column from old to new drew
\* a gap and a length: the call deactivated the column
sampled(old, new) == ~gapReturns(old) /\ ~new.active

\* a count of calls left after one more call
countedDown(left) == IF left > 0 THEN left - 1 ELSE 0

\* main, lines 122-127, for a column set of one column: the frame of one
\* advance call, which the terminal has received when it ends.  The history
\* is kept from the activation call to the call after the column's return.
colAdvance(every) ==
    \E r \in drawColumnFrame(0, columns[1], height, every) :
        LET old == columns[1]
            activation == ~old.active /\ ~gapReturns(old)
            tracked == sinceAct > 0 /\ ~returned
        IN  /\ columns' = [columns EXCEPT ![1] = r.col]
            /\ emit' = r.out
            /\ screen' = applied(screen, r.out \o frameEnd)
            /\ op' = "advance"
            /\ sinceAct' = IF activation THEN 1
                           ELSE IF tracked THEN sinceAct + 1 ELSE 0
            /\ actLen' = IF activation THEN old.length
                         ELSE IF tracked THEN actLen ELSE 0
            /\ returned' = (~activation /\ tracked /\ ~r.col.active)
            /\ dueAct' = IF sampled(old, r.col) THEN r.col.gap + 1 ELSE countedDown(dueAct)
            /\ dueReturn' = IF sampled(old, r.col)
                            THEN r.col.gap + height + r.col.length + 1
                            ELSE countedDown(dueReturn)
            /\ UNCHANGED <<width, height>>
            /\ UNCHANGED mainVars
            /\ UNCHANGED pureVars

ColAdvance == colAdvance(TRUE)

ColNext == ColAdvance

SpecColumn == ColInit /\ [][ColNext]_vars

(***************************************************************************)
(* SpecScreen: the frames of one column on the screen, across resizes      *)
(***************************************************************************)
\* the column sets of one column whose draws were extremes
ScreenInit ==
    /\ ColInit
    /\ columns \in initColumns(1, height, rainbowCycle, FALSE)

\* one frame: the draws of the advance call are extremes
ScreenAdvance == colAdvance(FALSE)

\* main, lines 111-118, for a column set of one column: the terminal was
\* resized, and the tick that finds the resize pending takes the new height,
\* makes a new column and clears the screen
ScreenReset ==
    /\ \E h \in RawHeights :
          /\ term' = [out |-> tty(width, h), inp |-> tty(width, h),
                      COLUMNS |-> << >>, LINES |-> << >>]
          /\ height' = clampHeight(getTerminalSize(term').h)
          /\ columns' \in initColumns(1, height', rainbowCycle, FALSE)
          /\ dueAct' = columns'[1].gap + 1
          /\ dueReturn' = columns'[1].gap + height' + columns'[1].length + 1
    /\ screen' = applied(screen, clearSequences)
    /\ emit' = << >>
    /\ op' = "init"
    /\ sinceAct' = 0
    /\ actLen' = 0
    /\ returned' = FALSE
    /\ UNCHANGED <<width, pureVars, rainbowTable, pc, args, cfg, err, idx, notified,
                   interruptCh, resizeCh, resized, buf, bufBytes, flushed, tmode, stdout,
                   stderr, exitCode, sleepLeft, elapsedMs, ticks, resizes, intAt, polledInt,
                   wasFalling>>

ScreenNext ==
    \/ ScreenAdvance
    \/ ScreenReset

SpecScreen == ScreenInit /\ [][ScreenNext]_vars

\* the loop of main goes on to the next tick: no frame and no sleep lasts
\* for ever
SpecScreenFair == SpecScreen /\ WF_vars(ScreenAdvance)

(***************************************************************************)
(* Spec: main() and its environment                                        *)
(***************************************************************************)
\* the arguments a run may be given
Tokens ==
    {optS, optSpeed, optD, optDensity, optH, optHelp, <<"-", "x">>,
     <<"5">>, <<"+", "5">>, <<"0">>, <<"1", "0", "1">>, <<"5", "x">>, << >>}

ArgLists == UNION {[1 .. n -> Tokens] : n \in 0 .. MaxArgs}

\* the answers a size query may get: a 40x11 terminal on standard output,
\* and no terminal at all with COLUMNS=7 and no LINES
TermStates ==
    {[out |-> tty(40, 11), inp |-> tty(40, 11), COLUMNS |-> << >>, LINES |-> << >>],
     [out |-> notTty, inp |-> notTty, COLUMNS |-> <<"7">>, LINES |-> <<"4">>]}

\* the rendering times time.Since(frameStart) may measure, in ms
RenderTimes == {0, 130}

\* SIGINT and SIGTERM
InterruptSignals == {2, 15}

\* a channel of capacity 1 after a signal is relayed to it without blocking
relayed(ch) == IF ch < 1 THEN ch + 1 ELSE ch

\* a faulty variant of ready: the case is never taken
neverReady(ch) == FALSE

\* whether "case <-ch" of a select is ready
ready(ch) == ch > 0

\* a faulty variant of sleepFor: the whole period, whatever the frame took
sleepForWhole(delay, elapsed) == delay

\* line 130
sleepFor(delay, elapsed) == delay - elapsed

\* what is left of a sleep after the clock has advanced by Quantum
sleepAfter(left) == IF left > Quantum THEN left - Quantum ELSE 0

\* os.Exit(1), line 63
errorStatus == 1

\* the status of a process a signal killed, as its parent sees it
killedStatus(sig) == 128 + sig

Init ==
    /\ pc = "parse"
    /\ args \in ArgLists
    /\ cfg = defaultConfig
    /\ err = noError
    /\ idx = 0
    /\ term \in TermStates
    /\ notified = {}
    /\ interruptCh = 0
    /\ resizeCh = 0
    /\ resized = FALSE
    /\ buf = << >>
    /\ bufBytes = 0
    /\ rainbowTable = << >>
    /\ flushed = << >>
    /\ tmode = normalMode
    /\ stdout = << >>
    /\ stderr = << >>
    /\ exitCode = -1
    /\ sleepLeft = 0
    /\ elapsedMs = -1
    /\ ticks = 0
    /\ resizes = 0
    /\ intAt = "none"
    /\ polledInt = FALSE
    /\ wasFalling = FALSE
    /\ call = noCall
    /\ result = 0
    /\ width = 0
    /\ height = 0
    /\ columns = << >>
    /\ emit = << >>
    /\ op = "none"
    /\ sinceAct = 0
    /\ actLen = 0
    /\ returned = FALSE
    /\ dueAct = 0
    /\ dueReturn = 0
    /\ screen = {}

history == <<sinceAct, actLen, returned, dueAct, dueReturn>>

\* lines 60-64: parseArguments fails
ParseError ==
    /\ pc = "parse"
    /\ parseArguments(args).err # noError
    /\ err' = parseArguments(args).err
    /\ stderr' = Append(stderr, parseArguments(args).err)
    /\ exitCode' = errorStatus
    /\ pc' = "exited"
    /\ args' = << >>
    /\ UNCHANGED <<colVars, pureVars, rainbowTable, cfg, idx, term, notified, interruptCh, resizeCh,
                   resized, buf, bufBytes, flushed, tmode, stdout, sleepLeft, elapsedMs, ticks,
                   resizes, intAt, polledInt, wasFalling>>

\* a faulty variant of ParseHelp: the usage is printed and main goes on
ParseHelpContinues ==
    /\ pc = "parse"
    /\ parseArguments(args).err = noError
    /\ parseArguments(args).help
    /\ stdout' = Append(stdout, "usage")
    /\ pc' = "init"
    /\ args' = << >>
    /\ UNCHANGED <<colVars, pureVars, rainbowTable, cfg, err, idx, term, notified, interruptCh,
                   resizeCh, resized, buf, bufBytes, flushed, tmode, stderr, exitCode,
                   sleepLeft, elapsedMs, ticks, resizes, intAt, polledInt, wasFalling>>

\* lines 60, 65-68: -h or --help
ParseHelp ==
    /\ pc = "parse"
    /\ parseArguments(args).err = noError
    /\ parseArguments(args).help
    /\ stdout' = Append(stdout, "usage")
    /\ exitCode' = 0
    /\ pc' = "exited"
    /\ args' = << >>
    /\ UNCHANGED <<colVars, pureVars, rainbowTable, cfg, err, idx, term, notified, interruptCh, resizeCh,
                   resized, buf, bufBytes, flushed, tmode, stderr, sleepLeft, elapsedMs, ticks,
                   resizes, intAt, polledInt, wasFalling>>

\* line 60, no error and no help
ParseOk ==
    /\ pc = "parse"
    /\ parseArguments(args).err = noError
    /\ ~parseArguments(args).help
    /\ cfg' = parseArguments(args).cfg
    /\ pc' = "init"
    /\ args' = << >>
    /\ UNCHANGED <<colVars, pureVars, rainbowTable, err, idx, term, notified, interruptCh, resizeCh,
                   resized, buf, bufBytes, flushed, tmode, stdout, stderr, exitCode,
                   sleepLeft, elapsedMs, ticks, resizes, intAt, polledInt, wasFalling>>

\* lines 70-79
Startup ==
    /\ pc = "init"
    /\ LET size == getTerminalSize(term)
           w == clampWidth(size.w)
           h == clampHeight(size.h)
           n == calculateColumnCount(w, cfg.density)
       IN  /\ n <= MaxColumns
           /\ width' = w
           /\ height' = h
           /\ columns' \in initColumns(n, h, rainbowCycle, FALSE)
    /\ rainbowTable' = buildRainbowTable(rainbowFreq, rainbowCycle)
    /\ op' = "init"
    /\ pc' = "setup"
    /\ UNCHANGED <<emit, history, screen, pureVars, args, cfg, err, idx, term, notified,
                   interruptCh, resizeCh, resized, buf, bufBytes, flushed, tmode, stdout,
                   stderr, exitCode, sleepLeft, elapsedMs, ticks, resizes, intAt,
                   polledInt, wasFalling>>

\* lines 81-83: setupTerminal writes its sequences and flushes them
SetupTerminal ==
    /\ pc = "setup"
    /\ LET w == flush(writeAll(writer(buf, bufBytes), setupSequences))
       IN  /\ flushed' = w.out
           /\ buf' = w.buf
           /\ bufBytes' = w.n
           /\ screen' = shown(screen, w)
    /\ tmode' = modeAfterAll(tmode, buf \o setupSequences)
    /\ pc' = "notifyResize"
    /\ UNCHANGED <<width, height, columns, emit, op, history, pureVars, rainbowTable, args, cfg, err, idx, term, notified, interruptCh,
                   resizeCh, resized, stdout, stderr, exitCode, sleepLeft, elapsedMs,
                   ticks, resizes, intAt, polledInt, wasFalling>>

\* lines 85-87
NotifyResize ==
    /\ pc = "notifyResize"
    /\ notified' = notified \cup {"WINCH"}
    /\ pc' = "notifyInt"
    /\ UNCHANGED <<colVars, pureVars, rainbowTable, args, cfg, err, idx, term, interruptCh, resizeCh,
                   resized, buf, bufBytes, flushed, tmode, stdout, stderr, exitCode,
                   sleepLeft, elapsedMs, ticks, resizes, intAt, polledInt, wasFalling>>

\* lines 89-91
NotifyInterrupt ==
    /\ pc = "notifyInt"
    /\ notified' = notified \cup {"INT"}
    /\ pc' = "pollInt"
    /\ UNCHANGED <<colVars, pureVars, rainbowTable, args, cfg, err, idx, term, interruptCh, resizeCh,
                   resized, buf, bufBytes, flushed, tmode, stdout, stderr, exitCode,
                   sleepLeft, elapsedMs, ticks, resizes, intAt, polledInt, wasFalling>>

\* a faulty variant of PollInterrupted: a pending resize is handled before
\* the loop is left
PollInterruptedLate ==
    /\ pc = "pollInt"
    /\ ready(interruptCh)
    /\ interruptCh' = interruptCh - 1
    /\ polledInt' = TRUE
    /\ pc' = IF ready(resizeCh) THEN "pollResize" ELSE "stopInt"
    /\ elapsedMs' = -1
    /\ UNCHANGED <<colVars, pureVars, rainbowTable, args, cfg, err, idx, term, notified, resizeCh,
                   resized, buf, bufBytes, flushed, tmode, stdout, stderr, exitCode,
                   sleepLeft, ticks, resizes, intAt, wasFalling>>

\* lines 95-97: the poll receives an interrupt and breaks the loop; the
\* deferred calls follow
PollInterrupted ==
    /\ pc = "pollInt"
    /\ ready(interruptCh)
    /\ interruptCh' = interruptCh - 1
    /\ polledInt' = TRUE
    /\ pc' = "stopInt"
    /\ elapsedMs' = -1
    /\ UNCHANGED <<colVars, pureVars, rainbowTable, args, cfg, err, idx, term, notified, resizeCh,
                   resized, buf, bufBytes, flushed, tmode, stdout, stderr, exitCode,
                   sleepLeft, ticks, resizes, intAt, wasFalling>>

\* a faulty variant of PollNoInterrupt: the tick begins whether or not an
\* interrupt is pending
PollNoInterruptBlind ==
    /\ pc = "pollInt"
    /\ ticks < MaxTicks
    /\ resized' = FALSE
    /\ pc' = "pollResize"
    /\ elapsedMs' = -1
    /\ UNCHANGED <<colVars, pureVars, rainbowTable, args, cfg, err, idx, term, notified, interruptCh,
                   resizeCh, buf, bufBytes, flushed, tmode, stdout, stderr, exitCode,
                   sleepLeft, ticks, resizes, intAt, polledInt, wasFalling>>

\* lines 95-101: nothing to receive, the tick begins
PollNoInterrupt ==
    /\ pc = "pollInt"
    /\ ~ready(interruptCh)
    /\ ticks < MaxTicks
    /\ resized' = FALSE
    /\ pc' = "pollResize"
    /\ elapsedMs' = -1
    /\ UNCHANGED <<colVars, pureVars, rainbowTable, args, cfg, err, idx, term, notified, interruptCh,
                   resizeCh, buf, bufBytes, flushed, tmode, stdout, stderr, exitCode,
                   sleepLeft, ticks, resizes, intAt, polledInt, wasFalling>>

\* lines 102-111: the channel is drained and a resize was pending
PollResized ==
    /\ pc = "pollResize"
    /\ ready(resizeCh)
    /\ resizeCh' = 0
    /\ resized' = TRUE
    /\ pc' = "reset"
    /\ UNCHANGED <<colVars, pureVars, rainbowTable, args, cfg, err, idx, term, notified, interruptCh,
                   buf, bufBytes, flushed, tmode, stdout, stderr, exitCode, sleepLeft, elapsedMs,
                   ticks, resizes, intAt, polledInt, wasFalling>>

\* lines 102-111, 120: no resize was pending
PollNoResize ==
    /\ pc = "pollResize"
    /\ ~ready(resizeCh)
    /\ idx' = 0
    /\ pc' = "draw"
    /\ UNCHANGED <<colVars, pureVars, rainbowTable, args, cfg, err, term, notified, interruptCh,
                   resizeCh, resized, buf, bufBytes, flushed, tmode, stdout, stderr,
                   exitCode, sleepLeft, elapsedMs, ticks, resizes, intAt, polledInt,
                   wasFalling>>

\* lines 112-117, 120
Reset ==
    /\ pc = "reset"
    /\ LET size == getTerminalSize(term)
           w == clampWidth(size.w)
           h == clampHeight(size.h)
           n == calculateColumnCount(w, cfg.density)
       IN  /\ n <= MaxColumns
           /\ width' = w
           /\ height' = h
           /\ columns' \in initColumns(n, h, rainbowCycle, FALSE)
    /\ LET w == flush(writeAll(writer(buf, bufBytes), clearSequences))
       IN  /\ flushed' = w.out
           /\ buf' = w.buf
           /\ bufBytes' = w.n
           /\ screen' = shown(screen, w)
    /\ tmode' = modeAfterAll(tmode, buf \o clearSequences)
    /\ wasFalling' = \E i \in 1 .. Len(columns) : columns[i].active
    /\ op' = "init"
    /\ emit' = << >>
    /\ idx' = 0
    /\ pc' = "draw"
    /\ UNCHANGED <<history, pureVars, rainbowTable, args, cfg, err, term, notified, interruptCh,
                   resizeCh, resized, stdout, stderr, exitCode, sleepLeft, elapsedMs,
                   ticks, resizes, intAt, polledInt>>

\* a faulty variant of advanced: the outcome is stored into every column
advancedAll(r) ==
    /\ columns' = [j \in 1 .. Len(columns) |-> r.col]
    /\ emit' = r.out
    /\ LET w == writeAll(writer(buf, bufBytes), r.out)
       IN  /\ buf' = w.buf
           /\ bufBytes' = w.n
           /\ flushed' = IF w.wrote THEN w.out ELSE flushed
           /\ screen' = shown(screen, w)
    /\ op' = "advance"
    /\ idx' = idx + 1
    /\ UNCHANGED <<width, height, history, pureVars, rainbowTable, pc, args, cfg, err, term, notified,
                   interruptCh, resizeCh, resized, tmode, stdout,
                   stderr, exitCode, sleepLeft, elapsedMs, ticks, resizes, intAt,
                   polledInt, wasFalling>>

\* one iteration of the range loop whose call of drawColumnFrame has the
\* outcome r
advanced(r) ==
    /\ columns' = [columns EXCEPT ![idx + 1] = r.col]
    /\ emit' = r.out
    /\ LET w == writeAll(writer(buf, bufBytes), r.out)
       IN  /\ buf' = w.buf
           /\ bufBytes' = w.n
           /\ flushed' = IF w.wrote THEN w.out ELSE flushed
           /\ screen' = shown(screen, w)
    /\ op' = "advance"
    /\ idx' = idx + 1
    /\ UNCHANGED <<width, height, history, pureVars, rainbowTable, pc, args, cfg, err, term, notified,
                   interruptCh, resizeCh, resized, tmode, stdout,
                   stderr, exitCode, sleepLeft, elapsedMs, ticks, resizes, intAt,
                   polledInt, wasFalling>>

\* lines 122-124: one iteration of the range loop
Draw ==
    /\ pc = "draw"
    /\ idx < Len(columns)
    /\ \E r \in drawColumnFrame(idx, columns[idx + 1], height, FALSE) : advanced(r)

\* lines 126-133: the frame is ended and flushed, and the sleep begins
EndFrame ==
    /\ pc = "draw"
    /\ idx = Len(columns)
    /\ LET w == flush(writeAll(writer(buf, bufBytes), frameEnd))
       IN  /\ flushed' = w.out
           /\ buf' = w.buf
           /\ bufBytes' = w.n
           /\ screen' = shown(screen, w)
    /\ tmode' = modeAfterAll(tmode, buf \o frameEnd)
    /\ ticks' = ticks + 1
    /\ \E elapsed \in RenderTimes :
          LET d == sleepFor(calculateFrameDelay(cfg.speed), elapsed)
          IN  /\ elapsedMs' = elapsed
              /\ sleepLeft' = IF d > 0 THEN d ELSE 0
              /\ pc' = IF d > 0 THEN "sleep" ELSE "pollInt"
    /\ UNCHANGED <<width, height, columns, emit, op, history, pureVars, rainbowTable, args, cfg, err, idx, term, notified, interruptCh,
                   resizeCh, resized, stdout, stderr, exitCode, resizes, intAt,
                   polledInt, wasFalling>>

\* time passes during time.Sleep
SleepTick ==
    /\ pc = "sleep"
    /\ sleepLeft > 0
    /\ sleepLeft' = sleepAfter(sleepLeft)
    /\ UNCHANGED <<colVars, pureVars, rainbowTable, pc, args, cfg, err, idx, term, notified,
                   interruptCh, resizeCh, resized, buf, bufBytes, flushed, tmode, stdout,
                   stderr, exitCode, elapsedMs, ticks, resizes, intAt, polledInt,
                   wasFalling>>

\* time.Sleep returns
Wake ==
    /\ pc = "sleep"
    /\ sleepLeft = 0
    /\ pc' = "pollInt"
    /\ UNCHANGED <<colVars, pureVars, rainbowTable, args, cfg, err, idx, term, notified, interruptCh,
                   resizeCh, resized, buf, bufBytes, flushed, tmode, stdout, stderr,
                   exitCode, sleepLeft, elapsedMs, ticks, resizes, intAt, polledInt,
                   wasFalling>>

\* line 91, deferred: signal.Stop(interruptCh)
StopInterrupt ==
    /\ pc = "stopInt"
    /\ notified' = notified \ {"INT"}
    /\ intAt' = "none"
    /\ pc' = "stopResize"
    /\ UNCHANGED <<colVars, pureVars, rainbowTable, args, cfg, err, idx, term, interruptCh, resizeCh,
                   resized, buf, bufBytes, flushed, tmode, stdout, stderr, exitCode,
                   sleepLeft, elapsedMs, ticks, resizes, polledInt, wasFalling>>

\* line 87, deferred: signal.Stop(resizeCh)
StopResize ==
    /\ pc = "stopResize"
    /\ notified' = notified \ {"WINCH"}
    /\ pc' = "restore"
    /\ UNCHANGED <<colVars, pureVars, rainbowTable, args, cfg, err, idx, term, interruptCh, resizeCh,
                   resized, buf, bufBytes, flushed, tmode, stdout, stderr, exitCode,
                   sleepLeft, elapsedMs, ticks, resizes, intAt, polledInt, wasFalling>>

\* line 83, deferred: restoreTerminal; then main returns
RestoreTerminal ==
    /\ pc = "restore"
    /\ LET w == flush(writeAll(writer(buf, bufBytes), restoreSequences))
       IN  /\ flushed' = w.out
           /\ buf' = w.buf
           /\ bufBytes' = w.n
           /\ screen' = shown(screen, w)
    /\ tmode' = modeAfterAll(tmode, buf \o restoreSequences)
    /\ exitCode' = 0
    /\ pc' = "exited"
    /\ UNCHANGED <<width, height, columns, emit, op, history, pureVars, rainbowTable, args, cfg, err, idx, term, notified, interruptCh,
                   resizeCh, resized, stdout, stderr, sleepLeft, elapsedMs, ticks, resizes,
                   intAt, polledInt, wasFalling>>

running == pc \notin {"exited", "killed"}

\* the part of main that pc lies in
phase ==
    CASE pc \in {"parse", "init", "setup"} -> "before setup"
      [] pc \in {"notifyResize", "notifyInt"} -> "before notify"
      [] pc = "pollInt" -> "poll"
      [] pc \in {"pollResize", "reset", "draw"} -> "frame"
      [] pc = "sleep" -> "sleep"
      [] OTHER -> "deferred"

\* SIGINT or SIGTERM arrives while a channel is notified of it: it is
\* buffered if the channel has room and dropped otherwise
InterruptRelayed ==
    /\ running
    /\ "INT" \in notified
    /\ ~ready(interruptCh)
    /\ interruptCh' = relayed(interruptCh)
    /\ intAt' = phase
    /\ UNCHANGED <<colVars, pureVars, rainbowTable, pc, args, cfg, err, idx, term, notified, resizeCh,
                   resized, buf, bufBytes, flushed, tmode, stdout, stderr, exitCode,
                   sleepLeft, elapsedMs, ticks, resizes, polledInt, wasFalling>>

\* SIGINT or SIGTERM arrives while no channel is notified of it: the Go
\* runtime's default applies and the process dies, no deferred call runs
InterruptKills ==
    /\ running
    /\ "INT" \notin notified
    /\ \E sig \in InterruptSignals : exitCode' = killedStatus(sig)
    /\ pc' = "killed"
    /\ UNCHANGED <<colVars, pureVars, rainbowTable, args, cfg, err, idx, term, notified, interruptCh,
                   resizeCh, resized, buf, bufBytes, flushed, tmode, stdout, stderr,
                   sleepLeft, elapsedMs, ticks, resizes, intAt, polledInt, wasFalling>>

\* a faulty variant of TerminalResized: the new size is taken at once
TerminalResizedPreempts ==
    /\ running
    /\ resizes < MaxResizes
    /\ resizes' = resizes + 1
    /\ term' \in TermStates
    /\ width' = clampWidth(getTerminalSize(term').w)
    /\ height' = clampHeight(getTerminalSize(term').h)
    /\ resizeCh' = IF "WINCH" \in notified THEN relayed(resizeCh) ELSE resizeCh
    /\ UNCHANGED <<columns, emit, op, history, screen, pureVars, rainbowTable, pc, args, cfg, err, idx,
                   notified, interruptCh, resized, buf, bufBytes, flushed, tmode, stdout,
                   stderr, exitCode, sleepLeft, elapsedMs, ticks, intAt, polledInt,
                   wasFalling>>

\* the terminal is resized and SIGWINCH arrives: relayed if a channel is
\* notified of it, ignored otherwise
TerminalResized ==
    /\ running
    /\ resizes < MaxResizes
    /\ resizes' = resizes + 1
    /\ term' \in TermStates
    /\ resizeCh' = IF "WINCH" \in notified THEN relayed(resizeCh) ELSE resizeCh
    /\ UNCHANGED <<colVars, pureVars, rainbowTable, pc, args, cfg, err, idx, notified, interruptCh,
                   resized, buf, bufBytes, flushed, tmode, stdout, stderr, exitCode,
                   sleepLeft, elapsedMs, ticks, intAt, polledInt, wasFalling>>

Next ==
    \/ ParseError
    \/ ParseHelp
    \/ ParseOk
    \/ Startup
    \/ SetupTerminal
    \/ NotifyResize
    \/ NotifyInterrupt
    \/ PollInterrupted
    \/ PollNoInterrupt
    \/ PollResized
    \/ PollNoResize
    \/ Reset
    \/ Draw
    \/ EndFrame
    \/ SleepTick
    \/ Wake
    \/ StopInterrupt
    \/ StopResize
    \/ RestoreTerminal
    \/ InterruptRelayed
    \/ InterruptKills
    \/ TerminalResized

Spec == Init /\ [][Next]_vars

(***************************************************************************)
(* SpecPure: one call of a pure function of main.go                        *)
(***************************************************************************)
\* the speeds calculateFrameDelay is called with: -3 .. MaxSpeed, and the
\* speeds around the ends of the range in which 160 - speed*12 fits an int
MaxSpeed == 15

WrapSpeeds == {-178956958, -178956957, 178956970, 178956971, 357913941}

Speeds == (-3 .. MaxSpeed) \cup WrapSpeeds

\* the widths and densities calculateColumnCount is called with
CountWidths == {1, 7, 20, 64, 80, 65535, 30000000}

CountDensities == {-100, -1, 0, 1, 50, 80, 99, 100, 101, 1000, 40000}

\* the answers getTerminalSize is called with: terminals of 40x11 and
\* 132x50, a descriptor whose ioctl succeeds with zero columns, no terminal
SizeFds == {tty(40, 11), tty(132, 50), tty(0, 24), notTty}

EnvValues ==
    {<< >>, <<"7">>, <<"0">>, <<"-", "3">>, <<"5", "x">>, <<"+", "1", "2">>}

SizeAnswers ==
    [out : SizeFds, inp : SizeFds, COLUMNS : EnvValues, LINES : EnvValues]

\* the table lengths buildRainbowTable and rainbowColor are called with, and
\* the positions rainbowColor is called with
TableLens == {1, 2, rainbowCycle}

MaxPos == 130

PureCalls ==
    {[fn |-> "calculateFrameDelay", in |-> <<s>>, done |-> FALSE] : s \in Speeds}
    \cup {[fn |-> "calculateColumnCount", in |-> <<w, d>>, done |-> FALSE] :
             w \in CountWidths, d \in CountDensities}
    \cup {[fn |-> "getTerminalSize", in |-> <<t>>, done |-> FALSE] :
             t \in SizeAnswers}
    \cup {[fn |-> "rainbowColor", in |-> <<n, p>>, done |-> FALSE] :
             n \in TableLens, p \in (-MaxPos) .. MaxPos}
    \cup {[fn |-> "buildRainbowTable", in |-> <<rainbowFreq, c>>, done |-> FALSE] :
             c \in TableLens}

PureInit ==
    /\ call \in PureCalls
    /\ result = 0
    /\ width = 0
    /\ height = 0
    /\ columns = << >>
    /\ emit = << >>
    /\ op = "none"
    /\ sinceAct = 0
    /\ actLen = 0
    /\ returned = FALSE
    /\ dueAct = 0
    /\ dueReturn = 0
    /\ screen = {}
    /\ pc = "call"
    /\ args = << >>
    /\ cfg = defaultConfig
    /\ err = noError
    /\ idx = 0
    /\ term = [out |-> notTty, inp |-> notTty, COLUMNS |-> << >>, LINES |-> << >>]
    /\ notified = {}
    /\ interruptCh = 0
    /\ resizeCh = 0
    /\ resized = FALSE
    /\ buf = << >>
    /\ bufBytes = 0
    /\ rainbowTable = << >>
    /\ flushed = << >>
    /\ tmode = normalMode
    /\ stdout = << >>
    /\ stderr = << >>
    /\ exitCode = -1
    /\ sleepLeft = 0
    /\ elapsedMs = -1
    /\ ticks = 0
    /\ resizes = 0
    /\ intAt = "none"
    /\ polledInt = FALSE
    /\ wasFalling = FALSE

\* the call returns value
returns(fn, value) ==
    /\ call.fn = fn
    /\ ~call.done
    /\ result' = value
    /\ call' = [call EXCEPT !.done = TRUE]
    /\ UNCHANGED <<colVars, mainVars>>

ApplyFrameDelay ==
    returns("calculateFrameDelay", calculateFrameDelay(call.in[1]))

ApplyColumnCount ==
    returns("calculateColumnCount", calculateColumnCount(call.in[1], call.in[2]))

ApplyTerminalSize ==
    returns("getTerminalSize", getTerminalSize(call.in[1]))

\* rainbowColor on a table that is not empty: the index of the entry returned
ApplyRainbowColor ==
    returns("rainbowColor", rainbowIndex(call.in[1], call.in[2]))

ApplyRainbowTable ==
    returns("buildRainbowTable", buildRainbowTable(call.in[1], call.in[2]))

PureNext ==
    \/ ApplyFrameDelay
    \/ ApplyColumnCount
    \/ ApplyTerminalSize
    \/ ApplyRainbowColor
    \/ ApplyRainbowTable

SpecPure == PureInit /\ [][PureNext]_vars

\* the call of fn has returned
hasReturned(fn) == call.fn = fn /\ call.done

(***************************************************************************)
(* SpecFrame: main() with no arguments on a terminal of ordinary size,     *)
(* all of whose columns got the same random draws; no signal arrives       *)
(***************************************************************************)
\* the ticks a run goes through
MaxFrameTicks == 10

\* the terminal: the 80x24 one the code itself defaults to
FrameTerms ==
    {[out |-> tty(80, 24), inp |-> tty(80, 24), COLUMNS |-> << >>, LINES |-> << >>]}

FrameInit ==
    /\ pc = "parse"
    /\ args = << >>
    /\ cfg = defaultConfig
    /\ err = noError
    /\ idx = 0
    /\ term \in FrameTerms
    /\ notified = {}
    /\ interruptCh = 0
    /\ resizeCh = 0
    /\ resized = FALSE
    /\ buf = << >>
    /\ bufBytes = 0
    /\ rainbowTable = << >>
    /\ flushed = << >>
    /\ tmode = normalMode
    /\ stdout = << >>
    /\ stderr = << >>
    /\ exitCode = -1
    /\ sleepLeft = 0
    /\ elapsedMs = -1
    /\ ticks = 0
    /\ resizes = 0
    /\ intAt = "none"
    /\ polledInt = FALSE
    /\ wasFalling = FALSE
    /\ call = noCall
    /\ result = 0
    /\ width = 0
    /\ height = 0
    /\ columns = << >>
    /\ emit = << >>
    /\ op = "none"
    /\ sinceAct = 0
    /\ actLen = 0
    /\ returned = FALSE
    /\ dueAct = 0
    /\ dueReturn = 0
    /\ screen = {}

\* lines 70-79, every column of initColumns getting the same three draws
FrameStartup ==
    /\ pc = "init"
    /\ LET size == getTerminalSize(term)
           w == clampWidth(size.w)
           h == clampHeight(size.h)
           n == calculateColumnCount(w, cfg.density)
       IN  /\ width' = w
           /\ height' = h
           /\ \E c \in {cs[1] : cs \in initColumns(1, h, rainbowCycle, FALSE)} :
                 columns' = [i \in 1 .. n |-> c]
    /\ rainbowTable' = buildRainbowTable(rainbowFreq, rainbowCycle)
    /\ op' = "init"
    /\ pc' = "setup"
    /\ UNCHANGED <<emit, history, screen, pureVars, args, cfg, err, idx, term, notified,
                   interruptCh, resizeCh, resized, buf, bufBytes, flushed, tmode, stdout,
                   stderr, exitCode, sleepLeft, elapsedMs, ticks, resizes, intAt,
                   polledInt, wasFalling>>

\* lines 95-101: nothing to receive, the tick begins
FramePoll ==
    /\ pc = "pollInt"
    /\ ~ready(interruptCh)
    /\ ticks < MaxFrameTicks
    /\ resized' = FALSE
    /\ pc' = "pollResize"
    /\ elapsedMs' = -1
    /\ UNCHANGED <<colVars, pureVars, rainbowTable, args, cfg, err, idx, term, notified, interruptCh,
                   resizeCh, buf, bufBytes, flushed, tmode, stdout, stderr, exitCode,
                   sleepLeft, ticks, resizes, intAt, polledInt, wasFalling>>

\* the outcome of drawColumnFrame whose random draws are the smallest
firstOutcome(ci, col, h) ==
    LET all == drawColumnFrame(ci, col, h, FALSE)
    IN  CHOOSE r \in all :
            \A q \in all : /\ r.col.gap <= q.col.gap
                           /\ r.col.length <= q.col.length
                           /\ r.col.colorOffset <= q.col.colorOffset
                           /\ r.col.lastChar <= q.col.lastChar

\* lines 122-124: one iteration of the range loop, its draws the smallest
FrameDraw ==
    /\ pc = "draw"
    /\ idx < Len(columns)
    /\ advanced(firstOutcome(idx, columns[idx + 1], height))

FrameNext ==
    \/ ParseOk
    \/ FrameStartup
    \/ SetupTerminal
    \/ NotifyResize
    \/ NotifyInterrupt
    \/ FramePoll
    \/ PollNoResize
    \/ FrameDraw
    \/ EndFrame
    \/ SleepTick
    \/ Wake

SpecFrame == FrameInit /\ [][FrameNext]_vars

(***************************************************************************)
(* SpecBash: main() of matrix-rain.sh, from its arguments to the end of    *)
(* the run                                                                 *)
(***************************************************************************)
\* the frames a run of the script is followed for
MaxBashFrames == 2

\* the arguments a run of the script may be given
BashTokens ==
    {optS, optD, optH, <<"-", "x">>, <<"-", "s", "5">>, <<"-", "h", "x">>,
     <<"-", "-">>, <<"5">>, <<"0">>, <<"0", "8">>, <<"1", "0", "1">>, <<"5", "x">>}

BashArgLists == UNION {[1 .. n -> BashTokens] : n \in 0 .. MaxArgs}

\* [[ $v =~ ^[0-9]+$ ]]
allDigits(s) == s # << >> /\ \A k \in 1 .. Len(s) : isDigit(s[k])

RECURSIVE inBase(_, _, _)
\* the number the digits s write in a base, after acc
inBase(s, base, acc) ==
    IF s = << >> THEN acc
    ELSE inBase(Tail(s), base, acc * base + digitValue(Head(s)))

\* the value of a string of digits in an arithmetic expression: a leading 0
\* makes it octal, and an octal number with a digit 8 or 9 is an error
arithValue(s) ==
    IF Len(s) > 1 /\ s[1] = "0"
    THEN IF \E k \in 1 .. Len(s) : digitValue(s[k]) > 7
         THEN [ok |-> FALSE, value |-> 0]
         ELSE [ok |-> TRUE, value |-> inBase(s, 8, 0)]
    ELSE [ok |-> TRUE, value |-> inBase(s, 10, 0)]

\* the condition of the if of lines 313 and 320, for the limits 1 and max:
\* ! [[ $v =~ ^[0-9]+$ ]] || ((v < 1 || v > max)); an arithmetic error makes
\* the (( )) command fail, as a false comparison does
rejected(s, max) ==
    \/ ~allDigits(s)
    \/ arithValue(s).ok /\ (arithValue(s).value < 1 \/ arithValue(s).value > max)

\* lines 326-329: print_help; return 0
helpReturn == [status |-> 0, help |-> TRUE, msg |-> << >>]

\* return 1 after the message msg on the error stream
failReturn(msg) == [status |-> 1, help |-> FALSE, msg |-> msg]

RECURSIVE getoptsFrom(_, _, _)
\* the while loop of parse_arguments with getopts "s:d:h" at character j of
\* argument i (both 1-based; j = 1 is the start of an argument)
getoptsFrom(a, i, j) ==
    IF i > Len(a) THEN [status |-> 0, help |-> FALSE, msg |-> << >>]
    ELSE LET arg == a[i] IN
         IF j = 1
         THEN IF Len(arg) < 2 \/ arg[1] # "-" \/ arg = <<"-", "-">>
              THEN [status |-> 0, help |-> FALSE, msg |-> << >>]
              ELSE getoptsFrom(a, i, 2)
         ELSE IF arg[j] = "h" THEN helpReturn
         ELSE IF arg[j] \in {"s", "d"}
         THEN LET inline == j < Len(arg)
                  value == IF inline THEN SubSeq(arg, j + 1, Len(arg))
                           ELSE IF i + 1 <= Len(a) THEN a[i + 1] ELSE << >>
                  next == IF inline THEN i + 1 ELSE i + 2
              IN  IF ~inline /\ i + 1 > Len(a)
                  THEN failReturn(<<"Invalid option: -">>)
                  ELSE IF arg[j] = "s" /\ rejected(value, 10)
                  THEN failReturn(<<"Error: Speed must be between 1 and 10">>)
                  ELSE IF arg[j] = "d" /\ rejected(value, 100)
                  THEN failReturn(<<"Error: Density must be between 1 and 100">>)
                  ELSE getoptsFrom(a, next, 1)
         ELSE failReturn(<<"Invalid option: -">>)

\* parse_arguments "$@"
parse_arguments(a) == getoptsFrom(a, 1, 1)

BashInit ==
    /\ pc = "parse"
    /\ args \in BashArgLists
    /\ cfg = defaultConfig
    /\ err = noError
    /\ idx = 0
    /\ term = [out |-> tty(80, 24), inp |-> tty(80, 24), COLUMNS |-> << >>, LINES |-> << >>]
    /\ notified = {}
    /\ interruptCh = 0
    /\ resizeCh = 0
    /\ resized = FALSE
    /\ buf = << >>
    /\ bufBytes = 0
    /\ rainbowTable = << >>
    /\ flushed = << >>
    /\ tmode = normalMode
    /\ stdout = << >>
    /\ stderr = << >>
    /\ exitCode = -1
    /\ sleepLeft = 0
    /\ elapsedMs = -1
    /\ ticks = 0
    /\ resizes = 0
    /\ intAt = "none"
    /\ polledInt = FALSE
    /\ wasFalling = FALSE
    /\ call = noCall
    /\ result = 0
    /\ width = 0
    /\ height = 0
    /\ columns = << >>
    /\ emit = << >>
    /\ op = "none"
    /\ sinceAct = 0
    /\ actLen = 0
    /\ returned = FALSE
    /\ dueAct = 0
    /\ dueReturn = 0
    /\ screen = {}

\* line 358: parse_arguments returns 1 and main ends the script with status 1
BashParseFails ==
    /\ pc = "parse"
    /\ parse_arguments(args).status # 0
    /\ stderr' = stderr \o parse_arguments(args).msg
    /\ exitCode' = 1
    /\ pc' = "exited"
    /\ UNCHANGED <<colVars, pureVars, rainbowTable, args, cfg, err, idx, term, notified,
                   interruptCh, resizeCh, resized, buf, bufBytes, flushed, tmode, stdout,
                   sleepLeft, elapsedMs, ticks, resizes, intAt, polledInt, wasFalling>>

\* line 358: parse_arguments returns 0, with or without the usage text
\* printed, and main goes on
BashParseReturns ==
    /\ pc = "parse"
    /\ parse_arguments(args).status = 0
    /\ stdout' = IF parse_arguments(args).help THEN Append(stdout, "usage") ELSE stdout
    /\ pc' = "setup"
    /\ UNCHANGED <<colVars, pureVars, rainbowTable, args, cfg, err, idx, term, notified,
                   interruptCh, resizeCh, resized, buf, bufBytes, flushed, tmode, stderr,
                   exitCode, sleepLeft, elapsedMs, ticks, resizes, intAt, polledInt, wasFalling>>

\* lines 360-373: the tables, setup_terminal and init_columns
BashSetupTerminal ==
    /\ pc = "setup"
    /\ tmode' = modeAfterAll(tmode, setupSequences)
    /\ pc' = "traps"
    /\ UNCHANGED <<colVars, pureVars, rainbowTable, args, cfg, err, idx, term, notified,
                   interruptCh, resizeCh, resized, buf, bufBytes, flushed, stdout, stderr,
                   exitCode, sleepLeft, elapsedMs, ticks, resizes, intAt, polledInt, wasFalling>>

\* lines 376-378: the traps
BashTraps ==
    /\ pc = "traps"
    /\ notified' = {"EXIT", "INT", "WINCH"}
    /\ pc' = "loop"
    /\ UNCHANGED <<colVars, pureVars, rainbowTable, args, cfg, err, idx, term,
                   interruptCh, resizeCh, resized, buf, bufBytes, flushed, tmode, stdout,
                   stderr, exitCode, sleepLeft, elapsedMs, ticks, resizes, intAt, polledInt,
                   wasFalling>>

\* line 381: one frame of main_loop
BashFrame ==
    /\ pc = "loop"
    /\ ticks < MaxBashFrames
    /\ ticks' = ticks + 1
    /\ UNCHANGED <<colVars, pureVars, rainbowTable, pc, args, cfg, err, idx, term, notified,
                   interruptCh, resizeCh, resized, buf, bufBytes, flushed, tmode, stdout,
                   stderr, exitCode, sleepLeft, elapsedMs, resizes, intAt, polledInt,
                   wasFalling>>

\* lines 343-354: SIGINT or SIGTERM with the traps set: on_interrupt exits
\* with status 0 and the EXIT trap runs cleanup
BashInterrupted ==
    /\ pc = "loop"
    /\ "INT" \in notified
    /\ tmode' = modeAfterAll(tmode, restoreSequences)
    /\ exitCode' = 0
    /\ pc' = "exited"
    /\ UNCHANGED <<colVars, pureVars, rainbowTable, args, cfg, err, idx, term, notified,
                   interruptCh, resizeCh, resized, buf, bufBytes, flushed, stdout, stderr,
                   sleepLeft, elapsedMs, ticks, resizes, intAt, polledInt, wasFalling>>

\* SIGINT or SIGTERM before the traps are set: the shell dies of it
BashKilled ==
    /\ pc \in {"parse", "setup", "traps"}
    /\ "INT" \notin notified
    /\ \E sig \in InterruptSignals : exitCode' = killedStatus(sig)
    /\ pc' = "killed"
    /\ UNCHANGED <<colVars, pureVars, rainbowTable, args, cfg, err, idx, term, notified,
                   interruptCh, resizeCh, resized, buf, bufBytes, flushed, tmode, stdout,
                   stderr, sleepLeft, elapsedMs, ticks, resizes, intAt, polledInt, wasFalling>>

BashNext ==
    \/ BashParseFails
    \/ BashParseReturns
    \/ BashSetupTerminal
    \/ BashTraps
    \/ BashFrame
    \/ BashInterrupted
    \/ BashKilled

SpecBash == BashInit /\ [][BashNext]_vars

(***************************************************************************)
(* Claims about the column state machine, under SpecColumn                 *)
(***************************************************************************)
\* the column of SpecColumn
theCol == columns[1]

\* the head the call about to be made works on (line 255)
workHead == IF theCol.active THEN theCol.head ELSE 1

\* C1, as claimed: an advance call on a falling column adds exactly 1 to head
\* until head exceeds height+length, when it resets head to 0 and returns the
\* column to gap; and a falling column's head is never left above
\* height+length.
C1_AsClaimed ==
    [][(op' = "advance" /\ theCol.active) =>
         /\ IF theCol.head > height + theCol.length
            THEN ~theCol'.active /\ theCol'.head = 0
            ELSE theCol'.active /\ theCol'.head = theCol.head + 1
         /\ (theCol'.active => theCol'.head <= height + theCol'.length)]_vars

\* C1, amended: an advance call on a falling column adds exactly 1 to head and
\* leaves the column falling, unless it finds head above height+length, when
\* it resets head to 0 and returns the column to gap; between calls a falling
\* column's head is never above height+length+1 (it is left at
\* height+length+1 by the call before the reset).
C1_HeadAdvances ==
    [][(op' = "advance" /\ theCol.active) =>
         /\ IF theCol.head > height + theCol.length
            THEN ~theCol'.active /\ theCol'.head = 0
            ELSE theCol'.active /\ theCol'.head = theCol.head + 1
         /\ (theCol'.active => theCol'.head <= height + theCol'.length + 1)
         /\ theCol.head <= height + theCol.length + 1]_vars

\* a falling column left at head = height+length+1 by an advance call
C1_Witness ==
    /\ op = "advance"
    /\ theCol.active
    /\ theCol.head = height + theCol.length + 1

\* C2, as claimed: the advance call on a column in gap with gap = 0 leaves it
\* falling with head = 1.
C2_AsClaimed ==
    [][(op' = "advance" /\ ~theCol.active /\ theCol.gap = 0) =>
         (theCol'.active /\ theCol'.head = 1)]_vars

\* C2, amended: the advance call on a column in gap with gap = 0 makes it
\* falling and draws its first head glyph, bold, at row 1 (nothing else is
\* written), and leaves the stored head at 2, whatever the height, length and
\* colorOffset.
C2_Activates ==
    [][(op' = "advance" /\ ~theCol.active /\ theCol.gap = 0) =>
         /\ theCol'.active
         /\ theCol'.head = 2
         /\ Len(emit') = 1
         /\ emit'[1].kind = "bold" /\ emit'[1].row = 1
         /\ theCol'.lastChar = emit'[1].glyph
         /\ theCol'.length = theCol.length
         /\ theCol'.colorOffset = theCol.colorOffset]_vars

\* the column right after its activation call
C2_Witness ==
    /\ op = "advance"
    /\ sinceAct = 1
    /\ theCol.active
    /\ theCol.head = 2

\* C3: whatever the column's state, an advance call writes an erase only for
\* row head-length (head being the head the call works on) and only when that
\* row is in 1..height; it writes at most one erase.
C3_EraseInRange ==
    [][op' = "advance" =>
         /\ \A i \in 1 .. Len(emit') :
               emit'[i].kind = "erase" =>
                   /\ emit'[i].row = workHead - theCol.length
                   /\ emit'[i].row >= 1
                   /\ emit'[i].row <= height
         /\ Cardinality({i \in 1 .. Len(emit') : emit'[i].kind = "erase"}) <= 1]_vars

\* an advance call that erased the bottom row
C3_Witness ==
    /\ op = "advance"
    /\ \E i \in 1 .. Len(emit) : emit[i].kind = "erase" /\ emit[i].row = height

\* C4: H+L+1 advance calls after (and counting) its activation call, a column
\* of length L on a terminal of height H has returned to gap; with H = 24 and
\* L = 5 that is after 30 calls.
C4_CycledBack ==
    /\ (sinceAct >= height + actLen + 1) => (returned /\ ~theCol.active)
    /\ (height = 24 /\ actLen = 5 /\ sinceAct >= 30) => returned

\* the 30th call of a drop of length 5 on 24 rows
C4_Witness ==
    /\ height = 24
    /\ actLen = 5
    /\ sinceAct = 30
    /\ returned
    /\ ~theCol.active

\* C6, as claimed: every column has 3 <= length < height/2 + 3.
C6_AsClaimed ==
    \A i \in 1 .. Len(columns) :
        columns[i].length >= 3 /\ columns[i].length < (height \div 2) + 3

\* C6, amended: every column has 3 <= length <= height/2 + 3 (integer
\* division), as sampled by initColumns and as resampled on deactivation.
C6_LengthRange ==
    \A i \in 1 .. Len(columns) :
        columns[i].length >= 3 /\ columns[i].length <= (height \div 2) + 3

\* a column that deactivated and drew the largest length
C6_Witness ==
    /\ op = "advance"
    /\ returned
    /\ theCol.length = (height \div 2) + 3

(***************************************************************************)
(* Claims about main(), under Spec                                         *)
(***************************************************************************)
\* clamp(w * d / 100, 1, w)
C5_CountFor(w, d) ==
    LET c == (w * d) \div 100
    IN  IF c < 1 THEN 1 ELSE IF c > w THEN w ELSE c

\* C5: the step that processes a pending resize leaves every column in gap
\* state with head 0 and no last glyph, its gap in 5..14, its length in
\* 3..height/2+3 for the new height and its colorOffset in 0..62, whatever the
\* columns were; the width and height are the clamped answers of the size
\* query, the number of columns is clamp(width*density/100, 1, width), and
\* the clear-screen sequence is flushed before the frame's first column is
\* drawn.
C5_ResizeDiscards ==
    [][(pc = "reset" /\ pc' # "reset") =>
         /\ pc' = "draw"
         /\ idx' = 0
         /\ width' >= 20
         /\ height' >= 10
         /\ term.out.errno = 0 =>
               /\ width' = IF term.out.col < 20 THEN 20 ELSE term.out.col
               /\ height' = IF term.out.row < 10 THEN 10 ELSE term.out.row
         /\ Len(columns') = C5_CountFor(width', cfg.density)
         /\ \A i \in 1 .. Len(columns') :
               /\ ~columns'[i].active
               /\ columns'[i].head = 0
               /\ columns'[i].lastChar = 0
               /\ columns'[i].gap \in 5 .. 14
               /\ columns'[i].length \in 3 .. ((height' \div 2) + 3)
               /\ columns'[i].colorOffset \in 0 .. 62
         /\ Len(flushed') = 2
         /\ flushed'[1].kind = "2J"
         /\ buf' = << >>
         /\ emit' = << >>]_vars

\* a resize was processed while a column was falling
C5_Witness ==
    /\ pc = "draw"
    /\ idx = 0
    /\ op = "init"
    /\ resized
    /\ wasFalling
    /\ \A i \in 1 .. Len(columns) : ~columns[i].active

\* C7, as claimed: a frame is left only complete and flushed whole; and once
\* the top-of-tick poll has received an interrupt, no column is advanced and
\* nothing but the restoration sequences is written, the restoration runs and
\* the process exits with status 0.
C7_AsClaimed ==
    [][/\ (pc = "draw" /\ pc' # "draw") =>
             /\ idx = Len(columns)
             /\ Len(flushed') = Len(buf) + 1
             /\ flushed'[Len(flushed')].kind = "0m"
       /\ (polledInt \/ polledInt') =>
             /\ UNCHANGED <<columns, emit>>
             /\ flushed' # flushed =>
                   /\ pc' = "exited"
                   /\ \A i \in 1 .. Len(flushed') :
                         flushed'[i].kind \in {"0m", "?25h", "?7h", "?1049l"}
             /\ pc' # "killed"
             /\ pc' = "exited" => (exitCode' = 0 /\ tmode' = normalMode)]_vars

\* C8, as claimed: whenever the process has ended, the modes setupTerminal
\* set have been restored.
C8_AsClaimed ==
    (pc \in {"exited", "killed"}) => (tmode = normalMode)

\* C9, as claimed: with an interrupt buffered, a sleep in progress does not go
\* on: no further time passes in it.
C9_AsClaimed ==
    [][(pc = "sleep" /\ interruptCh > 0 /\ sleepLeft > 0) =>
         (pc' # "sleep" \/ sleepLeft' = sleepLeft)]_vars

\* the frame period of the run, in ms
C9_Period == IF 160 - 12 * cfg.speed < 20 THEN 20 ELSE 160 - 12 * cfg.speed

\* C9, amended: the sleep is not cancelled.  An interrupt that arrives during
\* it stays buffered while the sleep runs its remaining time, which is never
\* more than the frame period; nothing is drawn or written meanwhile, and the
\* top-of-tick poll that follows the sleep receives the interrupt and leaves
\* the loop before any column is advanced.
C9_SleepRunsOut ==
    [][/\ (pc = "sleep" /\ interruptCh > 0) =>
             /\ interruptCh' = interruptCh
             /\ UNCHANGED <<columns, emit, buf, flushed>>
             /\ \/ pc' = "sleep" /\ sleepLeft' <= sleepLeft
                \/ sleepLeft = 0 /\ pc' = "pollInt"
       /\ (pc = "pollInt" /\ interruptCh > 0 /\ pc' # "pollInt") =>
             /\ pc' = "stopInt"
             /\ UNCHANGED <<columns, emit, buf, flushed>>
       /\ pc' = "sleep" => (sleepLeft' >= 0 /\ sleepLeft' <= C9_Period)]_vars

\* the loop was left at the poll after an interrupt that arrived in the sleep
C9_Witness ==
    /\ pc = "stopInt"
    /\ polledInt
    /\ intAt = "sleep"

\* an argument list whose first argument is at fault: a speed or density flag
\* with no value or with a value that is no integer in range (of the tokens,
\* only "5" and "+5" are), or no option at all
C10_FaultyAtStart(a) ==
    /\ Len(a) >= 1
    /\ \/ /\ a[1] \in {optS, optSpeed, optD, optDensity}
          /\ (Len(a) = 1 \/ a[2] \notin {<<"5">>, <<"+", "5">>})
       \/ a[1] \notin {optS, optSpeed, optD, optDensity, optH, optHelp}

\* C10: when main has parsed an argument list that parseArguments rejects, or
\* whose first argument is at fault, the process has exited with a non-zero
\* status having printed one error, one of the four kinds, to standard error,
\* and nothing to standard output; no escape sequence was written or
\* buffered and the terminal's modes are untouched.
C10_RejectedNeverAnimates ==
    [][(/\ pc = "parse"
        /\ pc' \notin {"parse", "killed"}
        /\ (parseArguments(args).err # noError \/ C10_FaultyAtStart(args))) =>
         /\ pc' = "exited"
         /\ exitCode' > 0
         /\ Len(stderr') = 1
         /\ stderr'[1][1] \in {"missing value for",
                               "speed must be an integer between 1 and 10",
                               "density must be an integer between 1 and 100",
                               "invalid option:"}
         /\ stdout' = << >>
         /\ flushed' = << >>
         /\ buf' = << >>
         /\ tmode' = normalMode
         /\ notified' = {}]_vars

\* a run that was given a speed out of range
C10_Witness ==
    /\ pc = "exited"
    /\ exitCode = 1
    /\ err # noError
    /\ err[1] = "speed must be an integer between 1 and 10"
    /\ stderr = <<err>>
    /\ tmode = normalMode
    /\ flushed = << >>

(***************************************************************************)
(* Claims about the pure functions, under SpecPure                          *)
(***************************************************************************)
\* max(20, 160 - 12*speed), for a speed of small magnitude
C12_Formula(speed) ==
    IF speed > 11 THEN 20
    ELSE IF 160 - 12 * speed < 20 THEN 20 ELSE 160 - 12 * speed

C12_Fits(speed) == speed >= -178956957 /\ speed <= 178956970

C13_AsClaimed ==
    hasReturned("calculateFrameDelay") =>
        LET speed == call.in[1]
        IN  /\ speed = 1 => result = 148
            /\ speed = 10 => result = 40
            /\ speed = 11 => result = 20
            /\ (speed \in 0 .. 1000 /\ 160 - 12 * speed < 20) => result = 20

\* C13, amended: 148 ms for speed 1, 40 ms for speed 10, 28 ms for speed 11,
\* and 20 ms from speed 12 on, as for every speed with 160 - 12*speed below
\* 20.
C13_Examples ==
    hasReturned("calculateFrameDelay") =>
        LET speed == call.in[1]
        IN  /\ speed = 1 => result = 148
            /\ speed = 10 => result = 40
            /\ speed = 11 => result = 28
            /\ speed = 12 => result = 20
            /\ (speed \in 0 .. 1000 /\ 160 - 12 * speed < 20) => result = 20

\* the call with speed 11
C13_Witness ==
    /\ hasReturned("calculateFrameDelay")
    /\ call.in[1] = 11
    /\ result = 28

\* floor(w*d/100) clamped to [1, w], for w >= 1, computed without the
\* product w*d
C14_Clamped(w, d) ==
    IF d <= 0 THEN 1
    ELSE IF d >= 100 THEN w
    ELSE LET c == (w \div 100) * d + (((w % 100) * d) \div 100)
         IN  IF c < 1 THEN 1 ELSE c

\* C14, as claimed: for every width >= 1 and every density the result is
\* floor(width*density/100) clamped to [1, width]; (80, 80) gives 64.
C14_AsClaimed ==
    hasReturned("calculateColumnCount") =>
        LET w == call.in[1]
            d == call.in[2]
        IN  /\ result >= 1 /\ result <= w
            /\ result = C14_Clamped(w, d)
            /\ (w = 80 /\ d = 80) => result = 64

\* the magnitude of width*density is at most 2^31 - 1: the product is
\* computed without overflow of a 32-bit int
C14_Fits(w, d) ==
    \/ d = 0
    \/ d > 0 /\ w <= 2147483647 \div d
    \/ d < 0 /\ w <= 2147483647 \div (-d)

\* C14, amended: for every width >= 1 and every density the result is in
\* [1, width]; whenever width*density does not overflow int it is
\* floor(width*density/100) clamped to [1, width]; (80, 80) gives 64.
C14_CountFormula ==
    hasReturned("calculateColumnCount") =>
        LET w == call.in[1]
            d == call.in[2]
        IN  /\ result >= 1 /\ result <= w
            /\ C14_Fits(w, d) => result = C14_Clamped(w, d)
            /\ (w = 80 /\ d = 80) => result = 64

\* the spec's example
C14_Witness ==
    /\ hasReturned("calculateColumnCount")
    /\ call.in = <<80, 80>>
    /\ result = 64

\* a descriptor whose direct query succeeds
C16_Succeeds(fd) == fd.errno = 0 /\ fd.col > 0 /\ fd.row > 0

\* the positive integers among the values the variables are given
C16_Positive(value) ==
    CASE value = <<"7">> -> 7
      [] value = <<"+", "1", "2">> -> 12
      [] OTHER -> 0

\* C16: getTerminalSize returns the size standard output's query gives when
\* that succeeds, else the size standard input's gives when that succeeds,
\* whatever COLUMNS and LINES are; when both fail, the width is COLUMNS if
\* that is a positive integer and 80 otherwise, and the height LINES if that
\* is a positive integer and 24 otherwise, each on its own.  Both dimensions
\* of the result are positive, and the result is a size, never a failure.
C16_FallbackOrder ==
    hasReturned("getTerminalSize") =>
        LET t == call.in[1]
        IN  /\ DOMAIN result = {"w", "h"}
            /\ result.w > 0 /\ result.h > 0
            /\ C16_Succeeds(t.out) =>
                  result = [w |-> t.out.col, h |-> t.out.row]
            /\ (~C16_Succeeds(t.out) /\ C16_Succeeds(t.inp)) =>
                  result = [w |-> t.inp.col, h |-> t.inp.row]
            /\ (~C16_Succeeds(t.out) /\ ~C16_Succeeds(t.inp)) =>
                  /\ result.w = IF C16_Positive(t.COLUMNS) > 0
                                THEN C16_Positive(t.COLUMNS) ELSE 80
                  /\ result.h = IF C16_Positive(t.LINES) > 0
                                THEN C16_Positive(t.LINES) ELSE 24

\* both queries failed, COLUMNS was 7 and LINES was no positive integer
C16_Witness ==
    /\ hasReturned("getTerminalSize")
    /\ ~C16_Succeeds(call.in[1].out)
    /\ ~C16_Succeeds(call.in[1].inp)
    /\ call.in[1].COLUMNS = <<"7">>
    /\ call.in[1].LINES = <<"0">>
    /\ result = [w |-> 7, h |-> 24]

\* C18: for a table of length C > 0 and every position p, negative ones
\* included, the index rainbowColor uses is p mod C with the non-negative
\* modulus: it lies in 0 .. C-1, differs from p by a multiple of C, and is
\* the index used for p + C and for p - C.
C18_NonNegativeModulus ==
    hasReturned("rainbowColor") =>
        LET n == call.in[1]
            p == call.in[2]
        IN  /\ result >= 0 /\ result < n
            /\ \E k \in (-MaxPos - 1) .. (MaxPos + 1) : p = k * n + result
            /\ rainbowIndex(n, p + n) = result
            /\ rainbowIndex(n, p - n) = result

\* a lookup at a negative position that is no multiple of the table length
C18_Witness ==
    /\ hasReturned("rainbowColor")
    /\ call.in = <<rainbowCycle, -1>>
    /\ result = 62

(***************************************************************************)
(* More claims about main(), under Spec                                    *)
(***************************************************************************)
\* -h or --help is among the arguments
C11_HelpAmong(a) ==
    \E i \in 1 .. Len(a) : a[i] \in {<<"-", "h">>, <<"-", "-", "h", "e", "l", "p">>}

\* C11, as claimed: whenever -h or --help is among the arguments, main prints
\* the usage text and exits with status 0, having written no escape sequence
\* and changed no terminal mode.
C11_AsClaimed ==
    [][(pc = "parse" /\ pc' \notin {"parse", "killed"} /\ C11_HelpAmong(args)) =>
         /\ pc' = "exited"
         /\ exitCode' = 0
         /\ stdout' = <<"usage">>
         /\ flushed' = << >>
         /\ tmode' = normalMode]_vars

\* -h or --help is reached by the scan from the left: it stands after zero or
\* more pairs of a speed or density flag and a valid value (of the tokens,
\* "5" and "+5")
C11_HelpReachedIn(a) ==
    \E i \in 1 .. Len(a) :
        /\ a[i] \in {<<"-", "h">>, <<"-", "-", "h", "e", "l", "p">>}
        /\ i % 2 = 1
        /\ \A j \in 1 .. (i - 1) :
              j % 2 = 1 =>
                  /\ a[j] \in {optS, optSpeed, optD, optDensity}
                  /\ a[j + 1] \in {<<"5">>, <<"+", "5">>}

\* C11, amended: when -h or --help is reached by the scan of the arguments
\* from the left, every argument before it being a flag with a valid value,
\* main prints the usage text and exits with status 0 without setting up the
\* terminal, creating columns or writing a frame; when it is among the
\* arguments but an earlier argument is at fault, or it is taken as the value
\* of a flag, main reports that error and exits with status 1 without
\* printing the usage text.
C11_HelpReached ==
    [][(pc = "parse" /\ pc' \notin {"parse", "killed"} /\ C11_HelpAmong(args)) =>
         /\ pc' = "exited"
         /\ flushed' = << >>
         /\ buf' = << >>
         /\ tmode' = normalMode
         /\ columns' = << >>
         /\ notified' = {}
         /\ IF C11_HelpReachedIn(args)
            THEN exitCode' = 0 /\ stdout' = <<"usage">> /\ stderr' = << >>
            ELSE exitCode' = 1 /\ stdout' = << >> /\ Len(stderr') = 1]_vars

\* a run that printed the usage text
C11_Witness ==
    /\ pc = "exited"
    /\ exitCode = 0
    /\ stdout = <<"usage">>
    /\ stderr = << >>
    /\ flushed = << >>
    /\ tmode = normalMode

\* C15: from startup on, whatever the size query answered, width >= 20,
\* height >= 10 and 1 <= number of columns <= width; and the step that takes
\* a size (startup, resize) keeps a dimension that meets its minimum and
\* raises one that does not to the minimum.
C15_Geometry ==
    [][/\ op' # "none" =>
             /\ width' >= 20
             /\ height' >= 10
             /\ Len(columns') >= 1
             /\ Len(columns') <= width'
       /\ (pc \in {"init", "reset"} /\ pc' \notin {pc, "killed"}) =>
             LET q == getTerminalSize(term)
             IN  /\ width' = IF q.w >= 20 THEN q.w ELSE 20
                 /\ height' = IF q.h >= 10 THEN q.h ELSE 10]_vars

\* after a resize to a size below both minimums
C15_Witness ==
    /\ pc = "draw"
    /\ resized
    /\ op = "init"
    /\ getTerminalSize(term) = [w |-> 7, h |-> 4]
    /\ width = 20
    /\ height = 10
    /\ Len(columns) = 1

\* C20: the arrival of a resize or of an interrupt changes nothing but the
\* channel it is buffered in (and the size the terminal will answer): not the
\* geometry, the columns, the writer or where main is.  While columns are
\* advanced or main sleeps, with whatever pending, the geometry and the
\* number of columns stay, the frame is completed and the sleep runs out;
\* the geometry changes only in the step after the resize poll and the loop
\* is left only from the interrupt poll.  A poll with nothing pending goes on
\* at once.
C20_OnlyAtPoll ==
    [][/\ (interruptCh' > interruptCh \/ resizeCh' > resizeCh \/ term' # term) =>
             UNCHANGED <<pc, width, height, columns, idx, resized, buf, flushed,
                         tmode, sleepLeft, exitCode>>
       /\ pc \in {"draw", "sleep"} =>
             /\ UNCHANGED <<width, height>>
             /\ Len(columns') = Len(columns)
             /\ pc = "draw" => pc' \in {"draw", "sleep", "pollInt"}
             /\ (pc = "draw" /\ pc' # "draw") => idx = Len(columns)
             /\ pc = "sleep" => pc' \in {"sleep", "pollInt"}
             /\ (pc = "sleep" /\ pc' # "sleep") => sleepLeft = 0
       /\ (op # "none" /\ <<width', height', Len(columns')>> # <<width, height, Len(columns)>>) =>
             (pc = "reset" /\ resized)
       /\ pc' = "reset" => (pc \in {"pollResize", "reset"} /\ (pc = "pollResize" => resizeCh > 0))
       /\ (pc' = "stopInt" /\ pc # "stopInt") => (pc = "pollInt" /\ interruptCh > 0)
       /\ (pc = "pollResize" /\ resizeCh = 0) => ENABLED PollNoResize
       /\ (pc = "pollInt" /\ interruptCh = 0 /\ ticks < MaxTicks) =>
             ENABLED PollNoInterrupt]_vars

\* an interrupt and a resize arrived while the columns were being advanced
C20_Witness ==
    /\ pc = "draw"
    /\ idx > 0
    /\ idx < Len(columns)
    /\ intAt = "frame"
    /\ interruptCh = 1
    /\ resizeCh = 1

\* sin(f*i + ph)*127 + 128 for f = 0.1, in units of 10^-4
C17_Value(i, ph) == channelValue(sinFixed(10000000 * i + ph))

\* the three phases: 0, 2*pi/3, 4*pi/3
C17_Phases == <<0, 209439510, 418879020>>

\* C17, as claimed: for f = 0.1 and C = 63 the table has 63 entries, each
\* channel of entry i is sin(f*i + phase)*127 + 128 rounded to the nearest
\* integer, and lies in 0 .. 255.
C17_AsClaimed ==
    (hasReturned("buildRainbowTable") /\ call.in = <<10000000, 63>>) =>
        /\ Len(result) = 63
        /\ \A i \in 0 .. 62 : \A k \in 1 .. 3 :
              /\ result[i + 1][k] = (C17_Value(i, C17_Phases[k]) + 5000) \div 10000
              /\ result[i + 1][k] \in 0 .. 255

\* C17, amended: for f = 0.1 and C = 63 the table has 63 entries, each
\* channel of entry i is sin(f*i + phase)*127 + 128 with its fraction cut off
\* (the conversion int(...)), not rounded, and lies in 1 .. 255.
C17_Truncated ==
    (hasReturned("buildRainbowTable") /\ call.in = <<10000000, 63>>) =>
        /\ Len(result) = 63
        /\ \A i \in 0 .. 62 : \A k \in 1 .. 3 :
              /\ result[i + 1][k] = C17_Value(i, C17_Phases[k]) \div 10000
              /\ result[i + 1][k] \in 1 .. 255

\* the table for 0.1 and 63: entry 1 is 140;231;12 (the values before the
\* conversion are 140.68, 231.95 and 12.37)
C17_Witness ==
    /\ hasReturned("buildRainbowTable")
    /\ call.in = <<10000000, 63>>
    /\ result[1] = <<128, 237, 18>>
    /\ result[2] = <<140, 231, 12>>

(***************************************************************************)
(* Claims about the writes of a frame, under SpecFrame                     *)
(***************************************************************************)
\* C19, as claimed: no write to standard output happens while the columns of
\* a frame are being advanced, and the write that ends the frame carries
\* everything the frame buffered, followed by the attribute reset; so that a
\* frame reaches standard output in one single write, whatever the number of
\* its columns and instructions.
C19_AsClaimed ==
    [][/\ (pc = "draw" /\ pc' = "draw") => flushed' = flushed
       /\ (pc = "draw" /\ pc' # "draw") =>
             /\ flushed' = buf \o frameEnd
             /\ bufBytes' = 0]_vars

\* the writer writes to standard output in the middle of a frame: the
\* instructions of the columns so far exceed its buffer
C19_MidFrameWrite ==
    /\ pc = "draw"
    /\ 0 < idx
    /\ idx < Len(columns)
    /\ flushed # << >>
    /\ flushed[Len(flushed)].kind \in {"bold", "dim", "erase"}
    /\ buf # << >>
    /\ bufBytes < byteLen(buf[1])

(***************************************************************************)
(* Claims about the columns of a frame, under Spec                         *)
(***************************************************************************)
\* C21: within a tick the range loop advances every column of the current
\* set exactly once, in the order of the slice: the loop starts at column 0,
\* each iteration advances the next column, and the frame ends only after the
\* last.  Advancing column i changes the state of column i alone, to an
\* outcome that depends on that column's state and the height only (not on i
\* nor on the other columns), and every instruction it emits is for terminal
\* column i+1.  Nothing but an iteration or a new column set changes a column.
C21_OncePerTick ==
    [][/\ idx' # idx =>
             \/ idx' = 0 /\ pc' = "draw" /\ pc # "draw"
             \/ idx' = idx + 1 /\ pc = "draw" /\ pc' = "draw" /\ idx < Len(columns)
       /\ (pc # "draw" /\ pc' = "draw") => idx' = 0
       /\ (pc = "draw" /\ pc' # "draw") => idx = Len(columns)
       /\ (pc = "draw" /\ idx' = idx + 1) =>
             /\ Len(columns') = Len(columns)
             /\ \A j \in 1 .. Len(columns) : j # idx + 1 => columns'[j] = columns[j]
             /\ columns'[idx + 1] \in
                   {q.col : q \in drawColumnFrame(0, columns[idx + 1], height, FALSE)}
             /\ \A k \in 1 .. Len(emit') : emit'[k].col = idx + 1
       /\ columns' # columns => (pc = "draw" /\ idx' = idx + 1) \/ op' = "init"]_vars

\* the second of two columns in different states has been advanced and has
\* drawn in terminal column 2
C21_Witness ==
    /\ pc = "draw"
    /\ Len(columns) = 2
    /\ idx = 2
    /\ op = "advance"
    /\ emit # << >>
    /\ columns[1] # columns[2]
    /\ columns[1].active

(***************************************************************************)
(* Claims about the instructions of one advance call, under SpecColumn     *)
(***************************************************************************)
\* C22, as claimed: a stream has three brightness tiers.  Of the glyphs an
\* advance call writes, the one at the head is bold, the one at the previous
\* position (head - 1) is written at normal weight, without the dim
\* attribute, and only glyphs two or more positions back are dim; what it
\* erases lies beyond the trail length.
C22_AsClaimed ==
    [][LET head == activate(columns[1]).head
       IN  \A k \in 1 .. Len(emit') :
              /\ emit'[k].kind = "erase" => emit'[k].row = head - columns[1].length
              /\ emit'[k].kind # "erase" =>
                    /\ emit'[k].row = head => emit'[k].kind = "bold"
                    /\ emit'[k].row = head - 1 => emit'[k].kind \notin {"bold", "dim"}
                    /\ emit'[k].row <= head - 2 => emit'[k].kind = "dim"]_vars

(***************************************************************************)
(* Claims about matrix-rain.sh, under SpecBash                             *)
(***************************************************************************)
\* C23, as claimed: matrix-rain.sh invoked with -h prints the usage text and
\* exits with status 0 without entering animation mode: setup_terminal and
\* main_loop are never reached, the terminal stays in its normal mode and no
\* frame is drawn.
C23_AsClaimed ==
    args = <<optH>> =>
        /\ pc \notin {"setup", "traps", "loop"}
        /\ tmode = normalMode
        /\ ticks = 0
        /\ pc = "exited" => (exitCode = 0 /\ stdout = <<"usage">>)

(***************************************************************************)
(* Claims about the screen, under SpecScreen                               *)
(***************************************************************************)
\* the rows of a terminal column that show a glyph
C24_RowsShown(c) == {cell[1] : cell \in {q \in screen : q[2] = c}}

\* C24: at the end of every frame, and across resizes, the cells of terminal
\* column i+1 that show a glyph are exactly the rows from head-length to
\* head-1 that lie in 1..height when column i is falling (head being the
\* stored head), and none when it is in gap; no other terminal column shows a
\* glyph.  So a column never shows more than length glyphs, and every glyph a
\* drop drew is erased by the time the drop deactivates.
C24_ScreenIsTrail ==
    /\ \A i \in 1 .. Len(columns) :
          /\ C24_RowsShown(i) =
                IF columns[i].active
                THEN {r \in 1 .. height :
                         /\ r >= columns[i].head - columns[i].length
                         /\ r <= columns[i].head - 1}
                ELSE {}
          /\ Cardinality(C24_RowsShown(i)) <= columns[i].length
    /\ \A cell \in screen : cell[2] \in 1 .. Len(columns)
    /\ returned => screen = {}

\* a drop whose first glyphs have been erased shows exactly length glyphs,
\* on a terminal that has been resized
C24_Witness ==
    /\ op = "advance"
    /\ theCol.active
    /\ theCol.head > theCol.length + 2
    /\ Cardinality(screen) = theCol.length
    /\ term.out.row = 4
    /\ height = 10

(***************************************************************************)
(* More claims about the column state machine, under SpecColumn            *)
(***************************************************************************)
\* C25: between advance calls a column is in gap exactly if its head is 0; a
\* column in gap has no last glyph and a gap from 0 to 14; a falling column
\* has a head from 2 to height + length + 1.
C25_BetweenCalls ==
    \A i \in 1 .. Len(columns) :
        /\ ~columns[i].active <=> columns[i].head = 0
        /\ ~columns[i].active =>
              /\ columns[i].lastChar = 0
              /\ columns[i].gap >= 0
              /\ columns[i].gap <= 14
        /\ columns[i].active =>
              /\ columns[i].head >= 2
              /\ columns[i].head <= height + columns[i].length + 1

\* a column back in gap with the longest gap, after a drop that reached the
\* greatest head
C25_Witness ==
    /\ op = "advance"
    /\ returned
    /\ ~theCol.active
    /\ theCol.head = 0
    /\ theCol.gap = 14
    /\ sinceAct = height + actLen + 1

\* C26: whenever an advance call draws the dim trail glyph, it draws it at
\* row head-1, and it is the glyph, with the rainbow-table index, that the
\* column's previous advance call drew bold at that row.  For a falling
\* column a previous head glyph exists whenever 1 <= head-1 <= height, so the
\* trail glyph is drawn whenever its row is on the terminal.
C26_TrailIsPreviousHead ==
    [][op' = "advance" =>
         /\ \A k \in 1 .. Len(emit') :
               emit'[k].kind = "dim" =>
                   /\ emit'[k].row = workHead - 1
                   /\ op = "advance"
                   /\ \E j \in 1 .. Len(emit) :
                         /\ emit[j].kind = "bold"
                         /\ emit[j].row = emit'[k].row
                         /\ emit[j].glyph = emit'[k].glyph
                         /\ emit[j].color = emit'[k].color
         /\ (theCol.active /\ theCol.head - 1 >= 1 /\ theCol.head - 1 <= height) =>
               /\ theCol.lastChar # 0
               /\ \E k \in 1 .. Len(emit') :
                     emit'[k].kind = "dim" /\ emit'[k].row = theCol.head - 1]_vars

\* the call whose head has left the terminal: it draws only the trail glyph,
\* at the bottom row, and erases
C26_Witness ==
    /\ op = "advance"
    /\ theCol.active
    /\ theCol.head = height + 2
    /\ \E k \in 1 .. Len(emit) : emit[k].kind = "dim" /\ emit[k].row = height
    /\ \A k \in 1 .. Len(emit) : emit[k].kind # "bold"

\* the place of an instruction's kind in the order bold, dim, erase
C27_Rank(kind) == CASE kind = "bold" -> 1 [] kind = "dim" -> 2 [] kind = "erase" -> 3 [] OTHER -> 0

\* what C27 says of the instructions e of a call that works on head with the
\* column's length: bold, dim and erase only, at most one of each and in that
\* order, at the rows head, head-1 and head-length, which are distinct
C27_Shape(e, head, length) ==
    /\ \A k \in 1 .. Len(e) :
          /\ C27_Rank(e[k].kind) # 0
          /\ e[k].kind = "bold" => e[k].row = head
          /\ e[k].kind = "dim" => e[k].row = head - 1
          /\ e[k].kind = "erase" => e[k].row = head - length
    /\ \A k, l \in 1 .. Len(e) :
          k < l => (C27_Rank(e[k].kind) < C27_Rank(e[l].kind) /\ e[k].row # e[l].row)

\* C27, as claimed: an advance call emits at most one bold draw at row head,
\* at most one dim draw at row head-1 and at most one erase at row
\* head-length, at distinct rows and in that order, and nothing else; a call
\* made in gap state emits nothing.
C27_AsClaimed ==
    [][op' = "advance" =>
         /\ C27_Shape(emit', workHead, theCol.length)
         /\ ~theCol.active => emit' = << >>]_vars

\* C27, amended: an advance call emits at most one bold draw at row head, at
\* most one dim draw at row head-1 and at most one erase at row head-length,
\* at distinct rows and in that order, and nothing else; a call made in gap
\* state with gap > 0 emits nothing, and the call made in gap state with
\* gap = 0 emits the bold draw of row 1 and nothing else.
C27_TwoTiers ==
    [][op' = "advance" =>
         /\ C27_Shape(emit', workHead, theCol.length)
         /\ (~theCol.active /\ theCol.gap > 0) => emit' = << >>
         /\ (~theCol.active /\ theCol.gap = 0) =>
               (Len(emit') = 1 /\ emit'[1].kind = "bold" /\ emit'[1].row = 1)]_vars

\* a call that has emitted a bold draw, a dim draw and an erase
C27_Witness ==
    /\ op = "advance"
    /\ Len(emit) = 3
    /\ emit[1].kind = "bold"
    /\ emit[2].kind = "dim"
    /\ emit[3].kind = "erase"

(***************************************************************************)
(* More claims about the screen, under SpecScreen                          *)
(***************************************************************************)
\* C28: every instruction of a frame positions the cursor at a row from 1 to
\* height and at a column from 1 to the number of columns, which is at most
\* width, height and width being those main holds at that tick (clamped, and
\* taken anew by the tick that found a resize pending); so also in the frames
\* that follow a resize to a smaller terminal.
C28_OnTheTerminal ==
    /\ Len(columns) <= width
    /\ \A k \in 1 .. Len(emit) :
          /\ emit[k].row >= 1
          /\ emit[k].row <= height
          /\ emit[k].col >= 1
          /\ emit[k].col <= Len(columns)

\* after a resize to fewer than 10 rows, a head drawn at row 10, the bottom
\* row main holds
C28_Witness ==
    /\ op = "advance"
    /\ term.out.row = 4
    /\ height = minTermHeight
    /\ sinceAct = height
    /\ \E k \in 1 .. Len(emit) : emit[k].kind = "bold" /\ emit[k].row = height

(***************************************************************************)
(* Claims about signals, under Spec                                        *)
(***************************************************************************)
\* the geometry a query of the terminal would give now, clamped
C29_Current ==
    LET size == getTerminalSize(term)
    IN  <<IF size.w < 20 THEN 20 ELSE size.w, IF size.h < 10 THEN 10 ELSE size.h>>

\* C29, as claimed: no resize signal is lost.  Once main has taken its
\* geometry, and until an interrupt ends the loop, a resize that no geometry
\* query has followed is pending in resizeCh or is being handled by the
\* reset of the current tick: whenever the geometry main holds is not the
\* terminal's, a reset is due.
C29_AsClaimed ==
    (/\ pc \in {"setup", "notifyResize", "notifyInt", "pollInt", "pollResize",
                "reset", "draw", "sleep"}
     /\ <<width, height>> # C29_Current)
        => (resizeCh > 0 \/ pc = "reset")

\* C30: an interrupt and a resize both pending at the top of a tick: the poll
\* takes the interrupt and the loop is left; from the poll on the geometry
\* and the columns stay as they are, resizeCh is not received from, no
\* clear-screen sequence is written and no column is advanced.
C30_InterruptWins ==
    [][/\ (pc = "pollInt" /\ ready(interruptCh) /\ ready(resizeCh))
              => (pc' = "pollInt" \/ (pc' = "stopInt" /\ polledInt'))
       /\ polledInt
              => /\ pc' \in {"stopInt", "stopResize", "restore", "exited", "killed"}
                 /\ UNCHANGED <<width, height, columns, emit, op, idx, ticks, resized>>
                 /\ resizeCh' >= resizeCh
                 /\ \A k \in 1 .. Len(buf') : buf'[k] # ctl("2J")
                 /\ flushed' # flushed
                        => \A k \in 1 .. Len(flushed') : flushed'[k] # ctl("2J")]_vars

\* main has returned after an interrupt, the resize still in resizeCh and
\* the geometry the one of before the resize
C30_Witness ==
    /\ pc = "exited"
    /\ polledInt
    /\ ready(resizeCh)
    /\ <<width, height>> # C29_Current
    /\ flushed = restoreSequences

(***************************************************************************)
(* Claims about the end of a run and the pace of the loop, under Spec      *)
(***************************************************************************)
\* C31: after a termination signal has arrived, at most one further frame
\* is flushed and no further tick is started.  While the signal is buffered
\* or has been received, a frame ends only if the signal arrived within it,
\* after its poll; from the end of that frame on the loop sleeps, polls and
\* is left, the tick count and the columns stay and nothing is written until
\* the restoration.
C31_AtMostOneFrame ==
    [][(interruptCh > 0 \/ polledInt) =>
          /\ ticks' # ticks =>
                /\ pc = "draw"
                /\ intAt = "frame"
                /\ ticks' = ticks + 1
                /\ pc' \in {"sleep", "pollInt"}
          /\ pc \in {"sleep", "pollInt"} =>
                /\ pc' \in {"sleep", "pollInt", "stopInt"}
                /\ UNCHANGED <<ticks, columns, emit, buf, flushed>>
          /\ pc \in {"stopInt", "stopResize", "restore"} =>
                /\ pc' \in {"stopInt", "stopResize", "restore", "exited", "killed"}
                /\ UNCHANGED <<ticks, columns, emit>>
                /\ flushed' # flushed => flushed' = restoreSequences]_vars

\* the signal arrived within a frame, that frame was flushed, and the poll
\* after it left the loop
C31_Witness ==
    /\ pc = "stopInt"
    /\ polledInt
    /\ intAt = "frame"
    /\ ticks >= 1
    /\ flushed # << >>
    /\ flushed[Len(flushed)] = ctl("0m")

\* whether a write holds the sequence that enters the alternate screen
C32_Enters(items) == \E k \in 1 .. Len(items) : items[k] = ctl("?1049h")

\* whether a write holds the sequence that leaves the alternate screen
C32_Leaves(items) == \E k \in 1 .. Len(items) : items[k] = ctl("?1049l")

\* C32, as claimed: in a run that has entered animation mode and leaves
\* through the loop, the enter sequences are written once, before any frame
\* output; the exit sequences are written once, after the last frame output;
\* and the run ends with the terminal modes as they were before the enter
\* sequences.
C32_AsClaimed ==
    [][/\ (flushed' # flushed /\ C32_Enters(flushed')) =>
             /\ pc = "setup"
             /\ flushed = << >>
             /\ ticks = 0
             /\ flushed' = setupSequences
             /\ tmode = normalMode
       /\ pc' = "setup" => pc \in {"init", "setup"}
       /\ (flushed' # flushed /\ C32_Leaves(flushed')) =>
             /\ pc = "restore"
             /\ pc' = "exited"
             /\ flushed' = restoreSequences
       /\ pc = "exited" => UNCHANGED <<flushed, buf, tmode, ticks>>
       /\ (polledInt /\ pc # pc' /\ pc' \in {"exited", "killed"}) =>
             /\ flushed' = restoreSequences
             /\ tmode' = normalMode]_vars

(***************************************************************************)
(* Claims about the period of a column, under SpecScreenFair               *)
(***************************************************************************)
\* C33: a column whose gap was drawn as g and length as L is activated by
\* the (g+1)-th advance call after the draw and deactivated by the
\* (height+L+1)-th call counting from the activation call, which is the
\* (g+height+L+1)-th call after the draw; and if the resizes stop, the
\* column is falling again and again and in gap again and again.
C33_Period ==
    /\ [][op' = "advance" =>
             /\ (~columns[1].active /\ columns'[1].active) <=> dueAct = 1
             /\ (columns[1].active /\ ~columns'[1].active) <=> dueReturn = 1
             /\ (columns[1].active /\ ~columns'[1].active) =>
                    /\ sinceAct' = height + actLen + 1
                    /\ actLen = columns[1].length]_vars
    /\ <>[](op = "advance") =>
           /\ []<>(columns[1].active)
           /\ []<>(~columns[1].active)

\* on a terminal of 24 rows, a column of gap 14 and length 15 one call
\* before the call that deactivates it, the 54th after the draw
C33_Witness ==
    /\ op = "advance"
    /\ height = 24
    /\ columns[1].active
    /\ actLen = 15
    /\ sinceAct = 39
    /\ dueReturn = 1
    /\ returned = FALSE

(***************************************************************************)
(* Claims about the gap countdown, under SpecColumn                        *)
(***************************************************************************)
\* C34: an advance call on a column in gap with gap > 0 takes 1 from the gap,
\* writes nothing and leaves every other field as it was; the gap is never
\* negative; and length and colorOffset change only in a call that
\* deactivates the column, the call made with the head beyond
\* height + length.
C34_GapCountdown ==
    [][LET old == columns[1]
           new == columns'[1]
           head == IF old.active THEN old.head ELSE 1
       IN  /\ (~old.active /\ old.gap > 0) =>
                 /\ new.gap = old.gap - 1
                 /\ emit' = << >>
                 /\ new.active = old.active
                 /\ new.head = old.head
                 /\ new.length = old.length
                 /\ new.colorOffset = old.colorOffset
                 /\ new.lastChar = old.lastChar
           /\ old.gap >= 0
           /\ new.gap >= 0
           /\ (new.length # old.length \/ new.colorOffset # old.colorOffset) =>
                 /\ old.active \/ old.gap = 0
                 /\ head > height + old.length
                 /\ ~new.active
                 /\ new.head = 0]_vars

\* a column in gap whose countdown has come down to 1, one call before the
\* call that activates it
C34_Witness ==
    /\ op = "advance"
    /\ ~columns[1].active
    /\ columns[1].gap = 1
    /\ dueAct = 2
    /\ columns[1].head = 0
    /\ columns[1].lastChar = 0
    /\ emit = << >>

(***************************************************************************)
(* Claims about the pace of the loop, under Spec                           *)
(***************************************************************************)
\* C35: the tick whose rendering took elapsed sleeps max(0, period - elapsed),
\* whatever the ticks before it took: every frame that ends counts one tick,
\* a frame that took less than the period is followed by a sleep of what is
\* left of the period, which only runs down, and a frame that took the
\* period or more is followed at once by the poll of the next tick, with no
\* sleep.
C35_SleepsTheRest ==
    [][/\ ticks' # ticks =>
             /\ pc = "draw"
             /\ ticks' = ticks + 1
             /\ elapsedMs' >= 0
             /\ sleepLeft' = IF C9_Period - elapsedMs' > 0
                             THEN C9_Period - elapsedMs' ELSE 0
             /\ elapsedMs' >= C9_Period => pc' = "pollInt"
             /\ elapsedMs' < C9_Period => pc' = "sleep"
       /\ pc = "sleep" =>
             /\ elapsedMs >= 0
             /\ elapsedMs < C9_Period
             /\ sleepLeft <= C9_Period - elapsedMs
             /\ sleepLeft' <= sleepLeft
             /\ pc' # "sleep" => (sleepLeft = 0 /\ pc' \in {"pollInt", "killed"})
       /\ (pc = "pollInt" /\ elapsedMs >= C9_Period) =>
             /\ sleepLeft = 0
             /\ pc' \in {"pollInt", "pollResize", "stopInt"}]_vars

\* the second frame took 130 ms of a period of 100 ms: no sleep, main is at
\* the poll of the third tick
C35_Witness ==
    /\ pc = "pollInt"
    /\ C9_Period = 100
    /\ elapsedMs = 130
    /\ sleepLeft = 0
    /\ ticks = 2
    /\ flushed # << >>
    /\ flushed[Len(flushed)] = ctl("0m")

====
